---- MODULE Spec2Model ----
(***************************************************************************)
(* A model of the expression-and-statement language front end:            *)
(*   - the parser of src/parser/src/parser.rs (precedence climbing for    *)
(*     expressions, recursive descent for statements), with the operator  *)
(*     table of src/parser/src/ast.rs;                                    *)
(*   - the lexer of src/parser/src/lexer.rs.                              *)
(* The parser is a function of its token vector; it is modelled by         *)
(* recursive operators that thread the cursor of the peekable iterator    *)
(* (Try is the `?` of the source), and applied by the action Parse to      *)
(* inputs drawn by Init.  The lexer runs one iteration of its loop a step. *)
(***************************************************************************)
EXTENDS Integers, Sequences, FiniteSets, TLC

VARIABLES
    tokens,     \* Parser.src: the token vector handed to Parser::new
    result,     \* what Parser::parse returned (ParseResult<Program>)
    phase,      \* "ready" before parse is called, "parsed" after
    input,      \* Lexer.input: the source text, a sequence of characters
    pos,        \* Lexer.pos: byte offset of the next character
    lexed,      \* the `tokens` vector local to Lexer::lex
    ret,        \* what Lexer::lex returned, once it has
    overflow_checks,  \* the build: whether arithmetic overflow panics (the
                      \* `overflow-checks` code generation option, on in the
                      \* dev profile and off in the release profile)
    value,      \* what Evaluator::eval returned, or how it ended
    output,     \* CodeGenerator.output: the lines of assembly pushed so far
    cpu,        \* the machine that runs the generated program
    calc,       \* parser/src/main.rs: the locals of infix_to_rpn and evaluate_rpn
    game        \* simple-porker: the deck, the hand and the round of the game loop

vars ==
    <<tokens, result, phase, input, pos, lexed, ret, overflow_checks, value, output, cpu,
      calc, game>>

(***************************************************************************)
(* Bounds of the model.                                                    *)
(***************************************************************************)
\* longest token vector drawn over the whole token alphabet
MaxLen == 3
\* most binary operators in an operand/operator chain
MaxOps == 2
\* longest token vector drawn over the parenthesis alphabet
MaxParenLen == 5
\* deepest nesting of control-flow statements in the drawn programs
MaxDepth == 2
\* most pieces of source text (words, characters) an input is made of
MaxPieces == 3

(***************************************************************************)
(* token.rs: TokenKind, Span, Token.                                       *)
(***************************************************************************)
TokenKind ==
    {"Plus", "Minus", "Mul", "Div", "Pow", "Eq", "Gt", "Lt", "GtEq", "LtEq",
     "Num", "Ident", "LeftParen", "RightParen", "Semicolon",
     "If", "While", "For", "LeftBlock", "RightBlock"}

Span(start, end) == [start |-> start, end |-> end]

Token(kind, val, span) == [kind |-> kind, val |-> val, span |-> span]

\* the token no error carries (SyntaxError::UnexpectedEof has no payload)
NoToken == Token("None", 0, Span(0, 0))

(***************************************************************************)
(* ast.rs: precedences, associativity, operator table.                     *)
(***************************************************************************)
prec_LOWEST == 0
prec_COMPARE == 1
prec_PLUS == 2
prec_MUL == 3
prec_UNARY == 3
prec_POW == 5
\* the level of `=`, ASSIGN(1), right-associative.  ast.rs has no Assign
\* operator and numbers COMPARE 1 as well; `=` is right-associative and no
\* operand is parsed at a minimum precedence of 1 except its own right
\* operand, so the tie changes no grouping.
prec_ASSIGN == 1

OpInfo(p, assoc) == [prec |-> p, assoc |-> assoc]

binds_at(info, min_prec) == info.prec >= min_prec

\* TryFrom<&TokenKind> for BinaryOp: the kinds that are binary operators
BinaryOpKinds == {"Plus", "Minus", "Mul", "Div", "Pow", "Gt", "Lt", "GtEq", "LtEq"}

\* the `=` token is the binary operator Assign
AssignKinds == {"Eq"}

IsBinaryOp(kind) == kind \in BinaryOpKinds \cup AssignKinds

try_from(kind) == IF kind \in AssignKinds THEN "Assign" ELSE kind

assign_info == OpInfo(prec_ASSIGN, "Right")

\* op_info with `*` and `/` on the level of `+` and `-`
op_info_flat(op) ==
    CASE op \in {"Gt", "GtEq", "Lt", "LtEq"} -> OpInfo(prec_COMPARE, "Left")
      [] op \in {"Plus", "Minus"} -> OpInfo(prec_PLUS, "Left")
      [] op \in {"Mul", "Div"} -> OpInfo(prec_PLUS, "Left")
      [] op = "Pow" -> OpInfo(prec_POW, "Right")
      [] OTHER -> assign_info

\* BinaryOp::op_info
op_info(op) ==
    CASE op \in {"Gt", "GtEq", "Lt", "LtEq"} -> OpInfo(prec_COMPARE, "Left")
      [] op \in {"Plus", "Minus"} -> OpInfo(prec_PLUS, "Left")
      [] op \in {"Mul", "Div"} -> OpInfo(prec_MUL, "Left")
      [] op = "Pow" -> OpInfo(prec_POW, "Right")
      [] OTHER -> assign_info

(***************************************************************************)
(* ast.rs: Expression and Statement nodes.                                 *)
(***************************************************************************)
Value(n) == [type |-> "Value", v |-> n]
Var(name) == [type |-> "Var", name |-> name]
Unary(op, e) == [type |-> "Unary", op |-> op, expr |-> e]
Binary(lhs, op, rhs) == [type |-> "Binary", lhs |-> lhs, op |-> op, rhs |-> rhs]

ExpressionStatement(e) == [type |-> "ExpressionStatement", expr |-> e]
BlockStatement(body) == [type |-> "BlockStatement", body |-> body]
If(cond, then) == [type |-> "If", cond |-> cond, then |-> then]
While(cond, body) == [type |-> "While", cond |-> cond, body |-> body]
For(init, cond, update, body) ==
    [type |-> "For", init |-> init, cond |-> cond, update |-> update, body |-> body]
Program(body) == [type |-> "Program", body |-> body]

\* Option<Expression>
None == <<>>
Some(e) == <<e>>

(***************************************************************************)
(* parser.rs: SyntaxError and ParseResult.  A result carries the cursor   *)
(* (how many tokens the iterator has yielded) and, for an error, whether   *)
(* it was raised because next() yielded nothing.                           *)
(***************************************************************************)
SyntaxError(kind, tok) == [kind |-> kind, tok |-> tok]

Ok(v, p) == [ok |-> TRUE, val |-> v, pos |-> p, err |-> SyntaxError("None", NoToken), eof |-> FALSE]
Err(e, p, eof) == [ok |-> FALSE, val |-> <<>>, pos |-> p, err |-> e, eof |-> eof]

\* Peekable::peek
is_eof(toks, p) == p >= Len(toks)
peek(toks, p) == toks[p + 1]

(***************************************************************************)
(* parser.rs: the parser.  Every operator takes the token vector and the  *)
(* cursor p (tokens already yielded) and returns a result with the new    *)
(* cursor.                                                                 *)
(***************************************************************************)
RECURSIVE expr(_, _, _), expr_loop(_, _, _, _), primary(_, _)
RECURSIVE stmt(_, _), stmt_list(_, _, _)
RECURSIVE r_if(_, _), r_while(_, _), r_for(_, _), block_statement(_, _)

\* Parser::expect with the mismatch reported as end of input
expect_eof(toks, p, expected) ==
    IF is_eof(toks, p)
    THEN Err(SyntaxError("UnexpectedEof", NoToken), p, TRUE)
    ELSE IF peek(toks, p).kind = expected
         THEN Ok(<<>>, p + 1)
         ELSE Err(SyntaxError("UnexpectedEof", NoToken), p + 1, FALSE)

\* Parser::expect: next() is called in every case, so a mismatching token
\* is consumed
expect(toks, p, expected) ==
    IF is_eof(toks, p)
    THEN Err(SyntaxError("UnexpectedEof", NoToken), p, TRUE)
    ELSE IF peek(toks, p).kind = expected
         THEN Ok(<<>>, p + 1)
         ELSE Err(SyntaxError("UnexpectedToken", peek(toks, p)), p + 1, FALSE)

\* the guard of the assignment-target check, dropped
invalid_target_never(op, lhs) == FALSE

\* matches!(op, BinaryOp::Assign) && !matches!(lhs, Expression::Var(_))
invalid_target(op, lhs) == op = "Assign" /\ lhs.type # "Var"

\* next_prec with every operator treated as left-associative
next_prec_left(info) == info.prec + 1

\* the minimum precedence of the right operand
next_prec(info) == IF info.assoc = "Left" THEN info.prec + 1 ELSE info.prec

\* the error of an unclosed parenthesis, reported as expect reports it
unmatched_as_expect(tok, e) == e

\* the error primary returns when expect(RightParen) fails with e
unmatched(tok, e) == Err(SyntaxError("UnmatchedLeftParen", tok), e.pos, e.eof)

\* the `?` operator: an error is returned at once, a value goes on to K
Try(r, K(_)) == IF r.ok THEN K(r) ELSE r

\* `if r.is_err() { return H(r) }`
OrElse(r, H(_)) == IF r.ok THEN r ELSE H(r)

primary(toks, p) ==
    IF is_eof(toks, p)
    THEN Err(SyntaxError("UnexpectedEof", NoToken), p, TRUE)
    ELSE LET tok == peek(toks, p) IN
         CASE tok.kind = "Num" -> Ok(Value(tok.val), p + 1)
           [] tok.kind = "Minus" ->
                Try(expr(toks, p + 1, prec_UNARY), LAMBDA r :
                Ok(Unary("Minus", r.val), r.pos))
           [] tok.kind = "LeftParen" ->
                Try(expr(toks, p + 1, prec_LOWEST), LAMBDA r :
                Try(OrElse(expect(toks, r.pos, "RightParen"),
                           LAMBDA e : unmatched(tok, e)), LAMBDA e :
                Ok(r.val, e.pos)))
           [] tok.kind = "Ident" -> Ok(Var(tok.val), p + 1)
           [] OTHER -> Err(SyntaxError("UnexpectedToken", tok), p + 1, FALSE)

\* the `while let Some(tok) = self.src.peek()` loop of Parser::expr
expr_loop(toks, p, lhs, min_prec) ==
    IF is_eof(toks, p) THEN Ok(lhs, p)
    ELSE LET tok == peek(toks, p) IN
         IF ~IsBinaryOp(tok.kind) THEN Ok(lhs, p)
         ELSE LET op == try_from(tok.kind)
                  info == op_info(op)
              IN  IF ~binds_at(info, min_prec) THEN Ok(lhs, p)
                  ELSE IF invalid_target(op, lhs)
                       THEN Err(SyntaxError("InvalidAssignmentTarget", tok), p, FALSE)
                       ELSE Try(expr(toks, p + 1, next_prec(info)), LAMBDA r :
                            expr_loop(toks, r.pos, Binary(lhs, op, r.val), min_prec))

expr(toks, p, min_prec) ==
    Try(primary(toks, p), LAMBDA l :
    expr_loop(toks, l.pos, l.val, min_prec))

\* the statement loop of if, while, for and block:
\* while let Some(tok) = peek() && tok.kind != RightBlock { push(stmt()?) }
stmt_list(toks, p, acc) ==
    IF is_eof(toks, p) \/ peek(toks, p).kind = "RightBlock" THEN Ok(acc, p)
    ELSE Try(stmt(toks, p), LAMBDA s :
         stmt_list(toks, s.pos, Append(acc, s.val)))

\* "(" E ")" "{" { Stmt } "}" after the keyword at cursor p was consumed
cond_and_block(toks, p) ==
    Try(expect(toks, p, "LeftParen"), LAMBDA a :
    Try(expr(toks, a.pos, prec_LOWEST), LAMBDA c :
    Try(expect(toks, c.pos, "RightParen"), LAMBDA b :
    Try(expect(toks, b.pos, "LeftBlock"), LAMBDA d :
    Try(stmt_list(toks, d.pos, <<>>), LAMBDA body :
    Try(expect(toks, body.pos, "RightBlock"), LAMBDA f :
    Ok([cond |-> c.val, body |-> body.val], f.pos)))))))

r_if(toks, p) ==
    Try(cond_and_block(toks, p + 1), LAMBDA r :
    Ok(If(r.val.cond, r.val.body), r.pos))

r_while(toks, p) ==
    Try(cond_and_block(toks, p + 1), LAMBDA r :
    Ok(While(r.val.cond, r.val.body), r.pos))

\* match peek() { Some(tok) if tok.kind != stop => Some(expr(LOWEST)?), _ => None }
opt_expr(toks, p, stop) ==
    IF ~is_eof(toks, p) /\ peek(toks, p).kind # stop
    THEN Try(expr(toks, p, prec_LOWEST), LAMBDA r : Ok(Some(r.val), r.pos))
    ELSE Ok(None, p)

r_for(toks, p) ==
    Try(expect(toks, p + 1, "LeftParen"), LAMBDA a :
    Try(opt_expr(toks, a.pos, "Semicolon"), LAMBDA init :
    Try(expect(toks, init.pos, "Semicolon"), LAMBDA s1 :
    Try(opt_expr(toks, s1.pos, "Semicolon"), LAMBDA cond :
    Try(expect(toks, cond.pos, "Semicolon"), LAMBDA s2 :
    Try(opt_expr(toks, s2.pos, "RightParen"), LAMBDA update :
    Try(expect(toks, update.pos, "RightParen"), LAMBDA b :
    Try(expect(toks, b.pos, "LeftBlock"), LAMBDA d :
    Try(stmt_list(toks, d.pos, <<>>), LAMBDA body :
    Try(expect(toks, body.pos, "RightBlock"), LAMBDA f :
    Ok(For(init.val, cond.val, update.val, body.val), f.pos)))))))))))

block_statement(toks, p) ==
    Try(expect(toks, p, "LeftBlock"), LAMBDA d :
    Try(stmt_list(toks, d.pos, <<>>), LAMBDA body :
    Try(expect(toks, body.pos, "RightBlock"), LAMBDA f :
    Ok(BlockStatement(body.val), f.pos))))

stmt(toks, p) ==
    IF is_eof(toks, p)
    THEN Err(SyntaxError("UnexpectedEof", NoToken), p, TRUE)
    ELSE LET tok == peek(toks, p) IN
         CASE tok.kind = "If" -> r_if(toks, p)
           [] tok.kind = "While" -> r_while(toks, p)
           [] tok.kind = "For" -> r_for(toks, p)
           [] tok.kind = "LeftBlock" -> block_statement(toks, p)
           [] OTHER ->
                Try(expr(toks, p, prec_LOWEST), LAMBDA e :
                Try(expect(toks, e.pos, "Semicolon"), LAMBDA s :
                Ok(ExpressionStatement(e.val), s.pos)))

RECURSIVE program_loop(_, _, _)
\* the loop of Parser::program left after the first statement
program_once(toks, p, body) == Ok(Program(body), p)

\* while !self.is_eof() { body.push(self.stmt()?) }
program_loop(toks, p, body) ==
    IF is_eof(toks, p) THEN Ok(Program(body), p)
    ELSE Try(stmt(toks, p), LAMBDA s :
         program_loop(toks, s.pos, Append(body, s.val)))

program(toks) ==
    Try(stmt(toks, 0), LAMBDA s :
    program_loop(toks, s.pos, <<s.val>>))

parse(toks) == program(toks)

(***************************************************************************)
(* The token vectors the parser is run on.  A token vector is drawn as a  *)
(* sequence of kinds; Num and Ident tokens get their index as payload, so *)
(* that every operand of the input is recognisable in the tree, and every *)
(* token gets a span of its own.                                           *)
(***************************************************************************)
MkTokens(kinds) ==
    [i \in 1..Len(kinds) |->
        Token(kinds[i],
              IF kinds[i] \in {"Num", "Ident"} THEN i ELSE 0,
              Span(i - 1, i))]

SeqsUpTo(S, n) == UNION {[1..k -> S] : k \in 0..n}

\* every token vector of at most MaxLen tokens
AnyInputs == SeqsUpTo(TokenKind, MaxLen)

\* operand { operator operand } ";"
\* the first operand may carry a unary minus
Operands == {<<"Num">>, <<"Ident">>}
FirstOperands == Operands \cup {<<"Minus", "Ident">>, <<"Minus", "Num">>}
OperatorKinds == BinaryOpKinds \cup AssignKinds

RECURSIVE Chains(_)
Chains(n) ==
    IF n = 0 THEN FirstOperands
    ELSE {c \o <<op>> \o o : c \in Chains(n - 1), op \in OperatorKinds, o \in Operands}

ChainInputs == {c \o <<"Semicolon">> : c \in UNION {Chains(k) : k \in 0..MaxOps}}

\* every vector of at most MaxParenLen tokens over parentheses, a literal,
\* an operator and the semicolon
ParenInputs ==
    SeqsUpTo({"Num", "Plus", "LeftParen", "RightParen", "Semicolon"}, MaxParenLen)

\* the programs of the statement grammar, nested at most d deep
ExprStmt == <<"Ident", "Semicolon">>
ForHeads ==
    {<<"For", "LeftParen", "Semicolon", "Semicolon", "RightParen">>,
     <<"For", "LeftParen", "Ident", "Semicolon", "Ident", "Semicolon", "Ident", "RightParen">>,
     <<"For", "LeftParen", "Semicolon", "Ident", "Semicolon", "RightParen">>,
     <<"For", "LeftParen", "Ident", "Semicolon", "Semicolon", "Ident", "RightParen">>}
Heads ==
    {<<"If", "LeftParen", "Ident", "RightParen">>,
     <<"While", "LeftParen", "Ident", "RightParen">>, <<>>} \cup ForHeads

RECURSIVE Stmts(_)
Stmts(d) ==
    IF d = 0 THEN {ExprStmt}
    ELSE {ExprStmt} \cup
         {h \o <<"LeftBlock">> \o b \o <<"RightBlock">> :
            h \in Heads, b \in {<<>>, ExprStmt \o ExprStmt} \cup Stmts(d - 1)}

Programs == Stmts(MaxDepth) \cup {ExprStmt \o s : s \in Stmts(MaxDepth)}

Prefixes(q) == {SubSeq(q, 1, k) : k \in 0..Len(q)}
Deletions(q) == {SubSeq(q, 1, k - 1) \o SubSeq(q, k + 1, Len(q)) : k \in 1..Len(q)}

\* the programs, cut short at every token and with every one token left out
StmtInputs == UNION {Prefixes(q) \cup Deletions(q) : q \in Programs}

InputFamilies == {"any", "chain", "paren", "stmt"}

Inputs(family) ==
    CASE family = "any" -> AnyInputs
      [] family = "chain" -> ChainInputs
      [] family = "paren" -> ParenInputs
      [] family = "stmt" -> StmtInputs

(***************************************************************************)
(* The parser run: Parser::new(tokens).parse().                            *)
(***************************************************************************)
Unparsed == Ok(<<>>, 0)

LexerIdle == input = <<>> /\ pos = 0 /\ lexed = <<>> /\ ret = [kind |-> "Idle"]

\* Evaluator::eval has not been called
NotEvaluated == [kind |-> "Idle"]
EvaluatorIdle == overflow_checks = FALSE /\ value = NotEvaluated

\* CodeGenerator::generate has not been called, nothing runs
GeneratorIdle == output = <<>> /\ cpu = [state |-> "off"]
\* the calculator of parser/src/main.rs and the poker game are not running
OthersIdle == calc = [state |-> "off"] /\ game = [state |-> "off"]

Init ==
    /\ \E family \in InputFamilies : \E k \in Inputs(family) : tokens = MkTokens(k)
    /\ result = Unparsed
    /\ phase = "ready"
    /\ LexerIdle
    /\ EvaluatorIdle
    /\ GeneratorIdle
    /\ OthersIdle

Parse ==
    /\ phase = "ready"
    /\ result' = parse(tokens)
    /\ phase' = "parsed"
    /\ UNCHANGED <<tokens, input, pos, lexed, ret, overflow_checks, value, output, cpu, calc, game>>

Next == Parse

Spec == Init /\ [][Next]_vars


(***************************************************************************)
(* lexer.rs: characters.  A character is a string; the characters of more *)
(* than one byte are named by their code point.                            *)
(***************************************************************************)
\* U+00E9 (a letter, 2 bytes), U+0663 (a decimal digit that is not ASCII,
\* 2 bytes), U+3000 (a space, 3 bytes), U+20AC (a currency sign, 3 bytes)
len_utf8(c) ==
    CASE c \in {"U+00E9", "U+0663"} -> 2
      [] c \in {"U+3000", "U+20AC"} -> 3
      [] OTHER -> 1

is_whitespace(c) == c \in {" ", "U+3000"}

is_ascii_digit(c) == c \in {"0", "1", "2", "3", "4", "5", "6", "7", "8", "9"}

is_alphabetic(c) ==
    c \in {"a", "b", "c", "d", "e", "f", "g", "h", "i", "j", "k", "l", "m", "n",
           "o", "p", "q", "r", "s", "t", "u", "v", "w", "x", "y", "z", "U+00E9"}

is_alphanumeric(c) == is_alphabetic(c) \/ is_ascii_digit(c) \/ c = "U+0663"

I32_MAX == 2147483647

\* byte offset of the i-th character of the text
RECURSIVE Offset(_, _)
Offset(inp, i) == IF i = 1 THEN 0 ELSE Offset(inp, i - 1) + len_utf8(inp[i - 1])

ByteLen(inp) == Offset(inp, Len(inp) + 1)

\* index of the character that starts at byte b, searched from character i
\* at byte off; Len(inp) + 1 for the end of the text, 0 when b is inside a
\* character or outside the text
RECURSIVE Locate(_, _, _, _)
Locate(inp, i, off, b) ==
    IF off = b THEN i
    ELSE IF off > b \/ i > Len(inp) THEN 0
    ELSE Locate(inp, i + 1, off + len_utf8(inp[i]), b)

\* str::is_char_boundary
is_char_boundary(inp, b) == Locate(inp, 1, 0, b) # 0

\* index of the character that starts at byte b, 0 when there is none
CharAt(inp, b) ==
    LET i == Locate(inp, 1, 0, b) IN IF i > Len(inp) THEN 0 ELSE i

\* &input[start..end], for start and end on character boundaries
Slice(inp, start, end) ==
    SubSeq(inp, Locate(inp, 1, 0, start), Locate(inp, 1, 0, end) - 1)

\* str::parse::<i32> of a run of ASCII digits: the decimal value, computed
\* with checked multiplication and addition; -1 stands for Err(PosOverflow)
DigitValue(c) ==
    CASE c = "0" -> 0 [] c = "1" -> 1 [] c = "2" -> 2 [] c = "3" -> 3 [] c = "4" -> 4
      [] c = "5" -> 5 [] c = "6" -> 6 [] c = "7" -> 7 [] c = "8" -> 8 [] c = "9" -> 9

RECURSIVE parse_i32(_)
parse_i32(digits) ==
    IF digits = <<>> THEN 0
    ELSE LET acc == parse_i32(SubSeq(digits, 1, Len(digits) - 1))
             d == DigitValue(digits[Len(digits)])
         IN  IF acc = -1 \/ acc > I32_MAX \div 10 THEN -1
             ELSE IF 10 * acc > I32_MAX - d THEN -1
             ELSE 10 * acc + d

(***************************************************************************)
(* lexer.rs: the lexer.  p is Lexer.pos.                                   *)
(***************************************************************************)
\* Lexer::peek: the index of the next character, 0 for None
peek_char(inp, p) == CharAt(inp, p)

\* Lexer::bump: pos after the next character was read
bump(inp, p) ==
    IF peek_char(inp, p) = 0 THEN p ELSE p + len_utf8(inp[peek_char(inp, p)])

RECURSIVE skip_whitespace(_, _)
skip_whitespace(inp, p) ==
    IF peek_char(inp, p) # 0 /\ is_whitespace(inp[peek_char(inp, p)])
    THEN skip_whitespace(inp, bump(inp, p))
    ELSE p

\* the scanning loop of next_number
RECURSIVE scan_digits(_, _)
scan_digits(inp, p) ==
    IF peek_char(inp, p) # 0 /\ is_ascii_digit(inp[peek_char(inp, p)])
    THEN scan_digits(inp, bump(inp, p))
    ELSE p

\* the scanning loop of next_ident
RECURSIVE scan_alphanumeric(_, _)
scan_alphanumeric(inp, p) ==
    IF peek_char(inp, p) # 0 /\ is_alphanumeric(inp[peek_char(inp, p)])
    THEN scan_alphanumeric(inp, bump(inp, p))
    ELSE p

\* Lexer::next_number, called with the first digit already read; the
\* unwrap panics when the run does not fit an i32
next_number(inp, p) ==
    LET start == p - 1
        end == scan_digits(inp, p)
        num_str == Slice(inp, start, end)
    IN  [panic |-> parse_i32(num_str) = -1, val |-> parse_i32(num_str), pos |-> end]

\* Lexer::next_ident, called with the first character already read; the
\* slice panics when start is inside a character
next_ident(inp, p) ==
    LET start == p - 1
        end == scan_alphanumeric(inp, p)
    IN  IF is_char_boundary(inp, start)
        THEN [panic |-> FALSE, val |-> Slice(inp, start, end), pos |-> end]
        ELSE [panic |-> TRUE, val |-> <<>>, pos |-> end]

InvalidToken(c, span) == [kind |-> "InvalidToken", c |-> c, span |-> span]
NoLexicalError == [kind |-> "None", c |-> "", span |-> Span(0, 0)]

Lexed(res, tok, err, p) == [res |-> res, tok |-> tok, err |-> err, pos |-> p]

SingleCharKind(c) ==
    CASE c = "+" -> "Plus" [] c = "-" -> "Minus" [] c = "*" -> "Mul" [] c = "/" -> "Div"
      [] c = "^" -> "Pow" [] c = "(" -> "LeftParen" [] c = ")" -> "RightParen"
      [] c = ";" -> "Semicolon" [] c = "=" -> "Eq"
      [] c = "{" -> "LeftBlock" [] c = "}" -> "RightBlock"

\* the identifiers that are keywords
Keyword(ident) ==
    CASE ident = <<"i", "f">> -> "If"
      [] ident = <<"w", "h", "i", "l", "e">> -> "While"
      [] OTHER -> "Ident"

\* Lexer::next_token: "Ok" with a token, "Eof", "Invalid" with an error, or
\* "Panic"
next_token(inp, p) ==
    LET start == skip_whitespace(inp, p)
        i == peek_char(inp, start)
        after == bump(inp, start)
    IN  IF i = 0 THEN Lexed("Eof", NoToken, NoLexicalError, start)
        ELSE LET c == inp[i] IN
             CASE c \in {"+", "-", "*", "/", "^", "(", ")", ";", "=", "{", "}"} ->
                    Lexed("Ok", Token(SingleCharKind(c), 0, Span(start, after)),
                          NoLexicalError, after)
               [] c \in {"<", ">"} ->
                    IF peek_char(inp, after) # 0 /\ inp[peek_char(inp, after)] = "="
                    THEN Lexed("Ok",
                               Token(IF c = "<" THEN "LtEq" ELSE "GtEq", 0,
                                     Span(start, bump(inp, after))),
                               NoLexicalError, bump(inp, after))
                    ELSE Lexed("Ok",
                               Token(IF c = "<" THEN "Lt" ELSE "Gt", 0, Span(start, after)),
                               NoLexicalError, after)
               [] is_ascii_digit(c) ->
                    LET n == next_number(inp, after) IN
                    IF n.panic THEN Lexed("Panic", NoToken, NoLexicalError, n.pos)
                    ELSE Lexed("Ok", Token("Num", n.val, Span(start, n.pos)),
                               NoLexicalError, n.pos)
               [] is_alphabetic(c) ->
                    LET n == next_ident(inp, after) IN
                    IF n.panic THEN Lexed("Panic", NoToken, NoLexicalError, n.pos)
                    ELSE Lexed("Ok",
                               Token(Keyword(n.val),
                                     IF Keyword(n.val) = "Ident" THEN n.val ELSE 0,
                                     Span(start, n.pos)),
                               NoLexicalError, n.pos)
               [] OTHER ->
                    Lexed("Invalid", NoToken,
                          InvalidToken(c, Span(start, start + len_utf8(c))), after)

(***************************************************************************)
(* The source texts the lexer is run on: up to MaxPieces pieces, each a   *)
(* word or a character.                                                    *)
(***************************************************************************)
Pieces ==
    {<<"i", "f">>, <<"w", "h", "i", "l", "e">>, <<"f", "o", "r">>,
     <<"f">>, <<"7">>, <<"8">>,
     <<"2", "1", "4", "7", "4", "8", "3", "6", "4">>,
     <<" ">>, <<"U+3000">>, <<"=">>, <<"<">>, <<">">>, <<"!">>,
     <<"U+00E9">>, <<"U+0663">>, <<"$">>, <<"U+20AC">>}

RECURSIVE Texts(_)
Texts(n) == IF n = 0 THEN {<<>>} ELSE {t \o q : t \in Texts(n - 1), q \in Pieces \cup {<<>>}}

(***************************************************************************)
(* The lexer run: Lexer::new(input).lex(), one iteration of the loop of   *)
(* lex per step.                                                           *)
(***************************************************************************)
ParserIdle == tokens = <<>> /\ result = Unparsed /\ phase = "idle"

Running == [kind |-> "Running", tokens |-> <<>>, err |-> NoLexicalError]
LexOk(toks) == [kind |-> "Ok", tokens |-> toks, err |-> NoLexicalError]
LexErr(e) == [kind |-> "Err", tokens |-> <<>>, err |-> e]
Panicked == [kind |-> "Panic", tokens |-> <<>>, err |-> NoLexicalError]

InitLex ==
    /\ input \in Texts(MaxPieces)
    /\ pos = 0
    /\ lexed = <<>>
    /\ ret = Running
    /\ ParserIdle
    /\ EvaluatorIdle
    /\ GeneratorIdle
    /\ OthersIdle

\* Ok(t) => tokens.push(t)
LexPush ==
    LET r == next_token(input, pos) IN
    /\ ret.kind = "Running"
    /\ r.res = "Ok"
    /\ lexed' = Append(lexed, r.tok)
    /\ pos' = r.pos
    /\ UNCHANGED <<input, ret, tokens, result, phase, overflow_checks, value, output, cpu, calc, game>>

\* Err(LexicalError::Eof) => break, and lex returns Ok(tokens)
LexBreak ==
    LET r == next_token(input, pos) IN
    /\ ret.kind = "Running"
    /\ r.res = "Eof"
    /\ ret' = LexOk(lexed)
    /\ pos' = r.pos
    /\ UNCHANGED <<input, lexed, tokens, result, phase, overflow_checks, value, output, cpu, calc, game>>

\* Err(e) => return Err(e)
LexFail ==
    LET r == next_token(input, pos) IN
    /\ ret.kind = "Running"
    /\ r.res = "Invalid"
    /\ ret' = LexErr(r.err)
    /\ pos' = r.pos
    /\ UNCHANGED <<input, lexed, tokens, result, phase, overflow_checks, value, output, cpu, calc, game>>

\* a panic inside next_token unwinds through lex
LexPanic ==
    LET r == next_token(input, pos) IN
    /\ ret.kind = "Running"
    /\ r.res = "Panic"
    /\ ret' = Panicked
    /\ pos' = r.pos
    /\ UNCHANGED <<input, lexed, tokens, result, phase, overflow_checks, value, output, cpu, calc, game>>

NextLex == LexPush \/ LexBreak \/ LexFail \/ LexPanic

SpecLex == InitLex /\ [][NextLex]_vars

(***************************************************************************)
(* i32 arithmetic as the evaluator uses it.  Each operation returns the    *)
(* wrapped result v and whether it overflowed, of; what an overflow does   *)
(* depends on the build (see overflow_checks below).  No intermediate      *)
(* value leaves the 32-bit range.                                          *)
(***************************************************************************)
I32_MIN == -I32_MAX - 1

Arith(v, of) == [v |-> v, of |-> of]

\* i32 + i32
overflowing_add(a, b) ==
    IF b > 0 /\ a > I32_MAX - b
    THEN Arith((a - I32_MAX - 1) + (b - I32_MAX - 1), TRUE)
    ELSE IF b < 0 /\ a < I32_MIN - b
         THEN Arith((a + I32_MAX + 1) + (b + I32_MAX + 1), TRUE)
         ELSE Arith(a + b, FALSE)

\* i32 - i32
overflowing_sub(a, b) ==
    IF b < 0 /\ a > I32_MAX + b
    THEN Arith((a - I32_MAX - 1) - (b + I32_MAX + 1), TRUE)
    ELSE IF b > 0 /\ a < I32_MIN + b
         THEN Arith((a + I32_MAX + 1) - (b - I32_MAX - 1), TRUE)
         ELSE Arith(a - b, FALSE)

\* -i32
overflowing_neg(a) == IF a = I32_MIN THEN Arith(I32_MIN, TRUE) ELSE Arith(-a, FALSE)

\* the two 16-bit halves of the bit pattern of an i32
limbs(n) ==
    IF n >= 0 THEN [hi |-> n \div 65536, lo |-> n % 65536]
    ELSE [hi |-> ((n + I32_MAX) + 1) \div 65536 + 32768, lo |-> ((n + I32_MAX) + 1) % 65536]

\* the i32 with the given halves
from_limbs(hi, lo) ==
    IF hi >= 32768 THEN (((hi - 32768) * 65536 + lo) - I32_MAX) - 1 ELSE hi * 65536 + lo

\* bits 0..15 and bits 16..31 of x * y, for x and y below 2^16
mul16_lo(x, y) == ((x % 256) * y + (((x \div 256) * y) % 256) * 256) % 65536
mul16_hi(x, y) ==
    ((x \div 256) * y) \div 256 + ((((x \div 256) * y) % 256) * 256 + (x % 256) * y) \div 65536

\* i32::wrapping_mul: the low 32 bits of the product
wrapping_mul(a, b) ==
    from_limbs((mul16_hi(limbs(a).lo, limbs(b).lo) + mul16_lo(limbs(a).hi, limbs(b).lo)
                    + mul16_lo(limbs(a).lo, limbs(b).hi)) % 65536,
               mul16_lo(limbs(a).lo, limbs(b).lo))

\* i32::unsigned_abs, for a above i32::MIN
abs(a) == IF a < 0 THEN -a ELSE a

\* x * y > i32::MAX and x * y > 2^31, for positive x and y
exceeds_max(x, y) == x > I32_MAX \div y
exceeds_min(x, y) == y # 1 /\ x > I32_MAX \div y + (IF I32_MAX % y = y - 1 THEN 1 ELSE 0)

\* whether the product of a and b is outside i32
mul_overflows(a, b) ==
    IF a = 0 \/ b = 0 THEN FALSE
    ELSE IF a = I32_MIN THEN b # 1
    ELSE IF b = I32_MIN THEN a # 1
    ELSE IF (a < 0) = (b < 0) THEN exceeds_max(abs(a), abs(b))
    ELSE exceeds_min(abs(a), abs(b))

\* i32 * i32
overflowing_mul(a, b) == Arith(wrapping_mul(a, b), mul_overflows(a, b))

\* `rhs as u32`, as the pair (bit 31, bits 0..30)
as_u32(n) ==
    IF n >= 0 THEN [hi |-> 0, lo |-> n] ELSE [hi |-> 1, lo |-> (n + I32_MAX) + 1]

\* exp /= 2 on that pair
half_u32(exp) == [hi |-> 0, lo |-> exp.lo \div 2 + exp.hi * ((I32_MAX \div 2) + 1)]

\* one iteration of the loop of i32::pow, `while exp > 1`: multiply the
\* accumulator in when the lowest bit of exp is set, halve exp, square base
pow_step(st) ==
    [base |-> wrapping_mul(st.base, st.base),
     acc  |-> IF st.exp.lo % 2 = 1 THEN wrapping_mul(st.acc, st.base) ELSE st.acc,
     exp  |-> half_u32(st.exp),
     of   |-> \/ st.of
              \/ st.exp.lo % 2 = 1 /\ mul_overflows(st.acc, st.base)
              \/ mul_overflows(st.base, st.base)]

\* the loop, and the `acc * base` after it
RECURSIVE pow_loop(_)
pow_loop(st) ==
    IF st.exp.hi = 0 /\ st.exp.lo = 1
    THEN Arith(wrapping_mul(st.acc, st.base), st.of \/ mul_overflows(st.acc, st.base))
    ELSE pow_loop(pow_step(st))

\* i32::pow(base, exp)
overflowing_pow(base, exp) ==
    IF exp.hi = 0 /\ exp.lo = 0 THEN Arith(1, FALSE)
    ELSE pow_loop([base |-> base, acc |-> 1, exp |-> exp, of |-> FALSE])

\* i32 / i32 for b # 0 and (a, b) # (i32::MIN, -1): the quotient truncated
\* toward zero
div_min(b) ==
    IF b = 1 THEN I32_MIN
    ELSE IF b = I32_MIN THEN 1
    ELSE IF b > 0 THEN -(I32_MAX \div b + (IF I32_MAX % b = b - 1 THEN 1 ELSE 0))
    ELSE I32_MAX \div (-b) + (IF I32_MAX % (-b) = (-b) - 1 THEN 1 ELSE 0)

wrapping_div(a, b) ==
    IF a = I32_MIN THEN div_min(b)
    ELSE IF b = I32_MIN THEN 0
    ELSE IF (a < 0) = (b < 0) THEN abs(a) \div abs(b)
    ELSE -(abs(a) \div abs(b))

(***************************************************************************)
(* evaluator.rs: the tree-walking interpreter.  A machine m is a record    *)
(* with the environment env, the value val of what was evaluated last, ok  *)
(* (FALSE once the evaluation has ended without a value, why says how),    *)
(* the iterations the loops may still take, fuel, and a record of what     *)
(* happened, log, which the code does not keep: the properties read it.    *)
(***************************************************************************)
\* most loop iterations of one evaluation; a run that needs more is cut off
MaxIters == 11

\* Environment::new
NoBindings == [x \in {} |-> 0]

\* define that forgets every other binding
define_only(env, name, n) == [x \in {name} |-> n]

\* Environment::define: HashMap::insert, the new value replaces the old one
define(env, name, n) == [x \in DOMAIN env \cup {name} |-> IF x = name THEN n ELSE env[x]]

\* Environment::get
get(env, name) == IF name \in DOMAIN env THEN Some(env[name]) ELSE None

\* Evaluator::new
NewMachine ==
    [ok |-> TRUE, why |-> "", val |-> 0, env |-> NoBindings, log |-> <<>>, fuel |-> MaxIters]

Returns(v, m) == [m EXCEPT !.val = v]
Panic(why, m) == [m EXCEPT !.ok = FALSE, !.why = why]

\* the loop bound is used up: the evaluation is cut off
CutOff(m) == [m EXCEPT !.ok = FALSE, !.why = "cut off"]
Burn(m) == [m EXCEPT !.fuel = @ - 1]

\* an entry of the log: what happened, at which nesting depth d, to which
\* node s (as the i-th statement of its list), with which value, leaving
\* which environment
Event(ev, d, s, i, m) == [ev |-> ev, d |-> d, s |-> s, i |-> i, val |-> m.val, env |-> m.env]
Note(ev, d, s, i, m) == [m EXCEPT !.log = Append(@, Event(ev, d, s, i, m))]

\* the result of an arithmetic operator: an overflow panics when the build
\* checks for it and wraps when it does not
arith(a, m) ==
    IF a.of /\ overflow_checks THEN Panic("arithmetic overflow", m) ELSE Returns(a.v, m)

\* lhs / rhs
divide(a, b, m) ==
    IF b = 0 THEN Panic("attempt to divide by zero", m)
    ELSE IF a = I32_MIN /\ b = -1 THEN Panic("attempt to divide with overflow", m)
    ELSE Returns(wrapping_div(a, b), m)

\* the arms of `match op` once both operands are evaluated
binary(op, a, b, m) ==
    CASE op = "Plus" -> arith(overflowing_add(a, b), m)
      [] op = "Minus" -> arith(overflowing_sub(a, b), m)
      [] op = "Mul" -> arith(overflowing_mul(a, b), m)
      [] op = "Div" -> divide(a, b, m)
      [] op = "Pow" -> arith(overflowing_pow(a, as_u32(b)), m)
      [] op = "Gt" -> Returns(IF a > b THEN 1 ELSE 0, m)
      [] op = "GtEq" -> Returns(IF a >= b THEN 1 ELSE 0, m)
      [] op = "Lt" -> Returns(IF a < b THEN 1 ELSE 0, m)
      [] op = "LtEq" -> Returns(IF a <= b THEN 1 ELSE 0, m)

\* Environment::get(name).unwrap()
unwrap(opt, m) == IF opt = None THEN Panic("unwrap on None", m) ELSE Returns(opt[1], m)

\* the Assign arm after rhs is evaluated: `self.env.define(name, v); v`
assign(name, e, m) ==
    Note("assign", 0, e, 0, [m EXCEPT !.env = define(m.env, name, m.val)])

RECURSIVE eval_expr(_, _)
\* Evaluator::expr
eval_expr(e, m) ==
    CASE e.type = "Value" -> Returns(e.v, m)
      [] e.type = "Var" -> unwrap(get(m.env, e.name), m)
      [] e.type = "Unary" ->
            Try(eval_expr(e.expr, m), LAMBDA a : arith(overflowing_neg(a.val), a))
      [] e.type = "Binary" /\ e.op = "Assign" ->
            IF e.lhs.type # "Var" THEN Panic("unreachable", m)
            ELSE Try(eval_expr(e.rhs, m), LAMBDA v : assign(e.lhs.name, e, v))
      [] OTHER ->
            Try(eval_expr(e.lhs, m), LAMBDA a :
            Try(eval_expr(e.rhs, a), LAMBDA b :
            binary(e.op, a.val, b.val, b)))

\* the test that also takes 0 for true
is_true_or_zero(v) == v >= 0

\* `if self.expr(cond) > 0`
is_true(v) == v > 0

RECURSIVE eval_stmt(_, _, _)
RECURSIVE eval_list(_, _, _, _)
RECURSIVE while_loop(_, _, _, _)
RECURSIVE for_loop(_, _, _, _)

\* `for s in list { result = self.stmt(s); }` from the i-th statement on;
\* m.val is the running result
eval_list(list, i, m, d) ==
    IF i > Len(list) THEN m
    ELSE Try(eval_stmt(list[i], m, d), LAMBDA r :
         eval_list(list, i + 1, Note("stmt", d, list[i], i, r), d))

\* while_loop that tests the condition once: `if` for `while`
while_once(s, res, m, d) ==
    Try(eval_expr(s.cond, m), LAMBDA c :
    IF is_true(c.val)
    THEN eval_list(s.body, 1, Returns(res, Note("cond", d, s, 0, c)), d + 1)
    ELSE Returns(res, Note("cond", d, s, 0, c)))

\* the `while self.expr(cond) > 0` loop of the While arm; res is the
\* running `result`
while_loop(s, res, m, d) ==
    IF m.fuel = 0 THEN CutOff(m)
    ELSE Try(eval_expr(s.cond, m), LAMBDA c :
         IF is_true(c.val)
         THEN Try(eval_list(s.body, 1, Returns(res, Note("cond", d, s, 0, c)), d + 1),
                  LAMBDA b : while_loop(s, b.val, Burn(b), d))
         ELSE Returns(res, Note("cond", d, s, 0, c)))

\* for_update that keeps the value of update as the running result
for_update_kept(s, res, m, d) ==
    IF s.update = None THEN m
    ELSE Try(eval_expr(s.update[1], m), LAMBDA u : Note("update", d, s, 0, u))

\* `if let Some(update) = update { self.expr(update); }`: the value of
\* update is dropped, the running result stays
for_update(s, res, m, d) ==
    IF s.update = None THEN m
    ELSE Try(eval_expr(s.update[1], m), LAMBDA u :
         Returns(res, Note("update", d, s, 0, u)))

\* the `while self.expr(cond) > 0` loop of the For arm
for_loop(s, res, m, d) ==
    IF m.fuel = 0 THEN CutOff(m)
    ELSE Try(eval_expr(s.cond[1], m), LAMBDA c :
         IF is_true(c.val)
         THEN Try(eval_list(s.body, 1, Returns(res, Note("cond", d, s, 0, c)), d + 1),
                  LAMBDA b :
              Try(for_update(s, b.val, b, d), LAMBDA u :
              for_loop(s, u.val, Burn(u), d)))
         ELSE Returns(res, Note("cond", d, s, 0, c)))

\* `if let Some(init) = init { result = self.expr(init); }`
for_init(s, m, d) ==
    IF s.init = None THEN Returns(0, m)
    ELSE Try(eval_expr(s.init[1], m), LAMBDA r : Note("init", d, s, 0, r))

\* for_rest that runs the body once when there is no condition
for_rest_once(s, m, d) ==
    IF s.cond = None THEN eval_list(s.body, 1, m, d + 1) ELSE for_loop(s, m.val, m, d)

\* `let Some(cond) = cond else { return 0; }` and the loop
for_rest(s, m, d) ==
    IF s.cond = None THEN Returns(0, m) ELSE for_loop(s, m.val, m, d)

\* the If arm after the condition is evaluated
if_then(s, c, d) ==
    IF is_true(c.val)
    THEN eval_list(s.then, 1, Returns(0, Note("cond", d, s, 0, c)), d + 1)
    ELSE Returns(0, Note("cond", d, s, 0, c))

\* the arms of `match stmt`
stmt_arm(s, m, d) ==
    CASE s.type = "ExpressionStatement" -> eval_expr(s.expr, m)
      [] s.type = "BlockStatement" -> eval_list(s.body, 1, Returns(0, m), d + 1)
      [] s.type = "If" -> Try(eval_expr(s.cond, m), LAMBDA c : if_then(s, c, d))
      [] s.type = "While" -> while_loop(s, 0, m, d)
      [] s.type = "For" -> Try(for_init(s, m, d), LAMBDA r : for_rest(s, r, d))

\* Evaluator::stmt
eval_stmt(s, m, d) ==
    Try(stmt_arm(s, Note("enter", d, s, 0, m), d), LAMBDA r : Note("ret", d, s, 0, r))

\* Evaluator::eval
eval(prog) == eval_list(prog.body, 1, NewMachine, 0)

(***************************************************************************)
(* The source texts the interpreter is run on.                             *)
(***************************************************************************)
\* most binary operators of a drawn arithmetic expression
MaxArithOps == 2
\* most statements of a drawn block
MaxBody == 2

Literals == {<<"2">>,
            <<"3">>}
ArithOperators == {<<"+">>,
                  <<"-">>,
                  <<"*">>,
                  <<"^">>}

\* a literal with or without a unary minus
SignedLiterals == Literals \cup {<<"-">> \o l : l \in Literals}

\* operand { operator operand }, n operators
RECURSIVE ArithChains(_)
ArithChains(n) ==
    IF n = 0 THEN SignedLiterals
    ELSE {c \o op \o l : c \in ArithChains(n - 1), op \in ArithOperators, l \in SignedLiterals}

\* the chains of two operators with either pair in parentheses
ArithGroups ==
    {<<"(">> \o a \o op \o b \o <<")">> \o oq \o c :
        a \in Literals, b \in Literals, c \in Literals,
        op \in ArithOperators, oq \in ArithOperators}
    \cup
    {a \o op \o <<"(">> \o b \o oq \o c \o <<")">> :
        a \in Literals, b \in Literals, c \in Literals,
        op \in ArithOperators, oq \in ArithOperators}

\* programs of the documentation and programs at the edges of i32, of the
\* token alphabet and of the grammar
ArithSamples ==
    {<<"1", "+", "2", "*", "3", ";">>,
    <<"(", "1", "+", "2", ")", "*", "3", ";">>,
    <<"-", "1", ";">>,
    <<"1", "0", "^", "2", ";">>,
    <<"1", ";", "2", ";">>,
    <<"2", "*", "3", ";", "1", "+", "1", ";">>,
    <<"-", "6", "5", "5", "3", "6", "*", "3", "2", "7", "6", "8", ";">>,
    <<"2", "1", "4", "7", "4", "8", "3", "6", "4", "7", "+", "1", ";">>,
    <<"0", "-", "2", "1", "4", "7", "4", "8", "3", "6", "4", "7", "-", "1", ";">>,
    <<"2", "1", "4", "7", "4", "8", "3", "6", "4", "8", ";">>,
    <<"1", "+", "$", ";">>,
    <<"1", "+", ";">>,
    <<"2", "^", "3", "1", ";">>,
    <<"-", "2", "^", "3", "1", ";">>,
    <<"1", " ", "+", " ", "2", ";">>,
    <<"2", "^", "0", "-", "1", ";">>,
    <<"0", "^", "0", ";">>,
    <<"-", "2", "^", "2", ";">>,
    <<"2", "^", "3", "^", "2", ";">>,
    <<"1", "0", "-", "2", "-", "3", ";">>,
    <<"2", "*", "(", "3", "+", "1", ")", "^", "2", ";">>}

ArithTexts ==
    {c \o <<";">> : c \in UNION {ArithChains(k) : k \in 0..MaxArithOps} \cup ArithGroups}
    \cup ArithSamples

\* A statement program is written as its words, one token each.
\* expression statements, conditions and the clauses of `for`
SimpleStmts ==
    {<<"x", "=", "x", "+", "1", ";">>,
     <<"y", "=", "x", ";">>,
     <<"x", ";">>}
Conds ==
    {<<"x", "<", "2">>,
     <<"x">>,
     <<"1">>,
     <<"0">>,
     <<"0", "-", "1">>,
     <<"(", "x", "=", "x", "-", "1", ")">>}
Inits ==
    {<<>>,
     <<"x", "=", "0">>,
     <<"y", "=", "x", "=", "3">>}
ForConds ==
    {<<>>,
     <<"x", "<", "2">>,
     <<"0">>,
     <<"x">>}
Updates ==
    {<<>>,
     <<"x", "=", "x", "+", "1">>,
     <<"y", "=", "5">>}

\* statements with a body of their own, for the bodies of others
NestedStmts ==
    {<<"if", "(", "x", "<", "2", ")", "{", "x", "=", "x", "+", "1", ";", "}">>,
     <<"{", "y", "=", "2", ";", "}">>,
     <<"while", "(", "x", "<", "2", ")", "{", "x", "=", "x", "+", "1", ";", "}">>}

\* the statement lists of at most n expression statements
RECURSIVE StmtLists(_)
StmtLists(n) ==
    IF n = 0 THEN {<<>>} ELSE {b \o t : b \in StmtLists(n - 1), t \in SimpleStmts \cup {<<>>}}

Bodies == {<<"{">> \o b \o <<"}">> : b \in StmtLists(MaxBody) \cup NestedStmts}

IfTexts == {<<"if", "(">> \o c \o <<")">> \o b : c \in Conds, b \in Bodies}
WhileTexts == {<<"while", "(">> \o c \o <<")">> \o b : c \in Conds, b \in Bodies}
ForTexts ==
    {<<"for", "(">> \o i \o <<";">> \o c \o <<";">> \o u \o <<")">> \o b :
        i \in Inits, c \in ForConds, u \in Updates, b \in Bodies}

\* what comes before and after the statement
Preludes ==
    {<<>>,
     <<"x", "=", "0", ";">>,
     <<"x", "=", "1", ";">>,
     <<"x", "=", "3", ";">>}
Postludes ==
    {<<>>,
     <<"x", ";">>}

\* programs of the documentation, and programs that divide
StmtSamples ==
    {<<"x", "=", "0", ";", "while", "(", "x", "<", "1", ")", "{", "x", "=", "1", ";", "}", "x", ";">>,
     <<"for", "(", "x", "=", "0", ";", ";", ")", "{", "x", "=", "1", ";", "}", "x", ";">>,
     <<"for", "(", "ans", "=", "i", "=", "0", ";", "i", "<", "10", ";", "i", "=", "i", "+", "1", ")", "{", "ans", "=", "ans", "+", "i", ";", "}", "ans", ";">>,
     <<"x", ";">>,
     <<"1", "/", "0", ";">>,
     <<"7", "/", "2", ";">>,
     <<"0", "-", "7", "/", "2", ";">>,
     <<"x", "=", "1", ";", "x", "=", "x", "+", "1", ";", "x", ";">>,
     <<"if", "(", "1", ")", "{", "x", "=", "1", ";", "}", "x", ";">>,
     <<"x", "=", "y", "=", "2", ";", "x", "+", "y", ";">>,
     <<"{", "x", "=", "1", ";", "{", "x", "=", "x", "+", "1", ";", "}", "}", "x", ";">>,
     <<"x", "=", "1", ";", "y", "=", "2", ";", "x", "=", "3", ";", "y", ";">>,
     <<"if", "(", "1", ")", "{", "}">>,
     <<"while", "(", "1", ")", "{", "}">>,
     <<"x", "=", "2", ";", "x", "/", "(", "x", "-", "2", ")", ";">>,
     <<"if", "(", "2", ">", "1", ")", "{", "3", ";", "}">>,
     <<"if", "(", "1", ">=", "2", ")", "{", "3", ";", "}">>,
     <<"if", "(", "1", "<=", "1", ")", "{", "3", ";", "}">>,
     <<"x", "=", "1", ";", "if", "(", "x", ")", "{", "x", "=", "x", "+", "1", ";", "y", "=", "x", ";", "}",
       "if", "(", "0", "-", "1", ")", "{", "x", "=", "5", ";", "}", "x", ";">>}

StmtTexts ==
    {p \o t \o q : p \in Preludes, t \in IfTexts \cup WhileTexts \cup ForTexts, q \in Postludes}
    \cup StmtSamples

\* the token of a word
WordKind(w) ==
    CASE w = "for" -> "For" [] w = "if" -> "If" [] w = "while" -> "While"
      [] w = "(" -> "LeftParen" [] w = ")" -> "RightParen"
      [] w = "{" -> "LeftBlock" [] w = "}" -> "RightBlock" [] w = ";" -> "Semicolon"
      [] w = "=" -> "Eq" [] w = "+" -> "Plus" [] w = "-" -> "Minus" [] w = "*" -> "Mul"
      [] w = "/" -> "Div" [] w = "^" -> "Pow" [] w = "<" -> "Lt" [] w = ">" -> "Gt"
      [] w = "<=" -> "LtEq" [] w = ">=" -> "GtEq"
      [] w \in {"0", "1", "2", "3", "5", "7", "10"} -> "Num"
      [] OTHER -> "Ident"

WordValue(w) ==
    CASE w = "0" -> 0 [] w = "1" -> 1 [] w = "2" -> 2 [] w = "3" -> 3 [] w = "5" -> 5
      [] w = "7" -> 7 [] w = "10" -> 10 [] OTHER -> w

\* the token vector of a program
WordTokens(ws) ==
    [i \in 1..Len(ws) |->
        Token(WordKind(ws[i]),
              IF WordKind(ws[i]) \in {"Num", "Ident"} THEN WordValue(ws[i]) ELSE 0,
              Span(i - 1, i))]

(***************************************************************************)
(* The interpreter run: Lexer::new(input).lex(), Parser::new(tokens)       *)
(* .parse(), Evaluator::new().eval(&program).  The arithmetic texts go     *)
(* through the lexer step by step; the statement texts start at the        *)
(* parser, with their token vector.                                        *)
(***************************************************************************)
Evaluated(m) ==
    [kind |-> IF m.ok THEN "Value" ELSE IF m.why = "cut off" THEN "CutOff" ELSE "Panic",
     val |-> m.val, why |-> m.why, env |-> m.env, log |-> m.log]

InitEval ==
    /\ overflow_checks \in BOOLEAN
    /\ value = NotEvaluated
    /\ GeneratorIdle
    /\ OthersIdle
    /\ result = Unparsed
    /\ \/ /\ input \in ArithTexts
          /\ pos = 0 /\ lexed = <<>> /\ ret = Running
          /\ tokens = <<>> /\ phase = "idle"
       \/ /\ \E ws \in StmtTexts : tokens = WordTokens(ws)
          /\ LexerIdle
          /\ phase = "ready"

\* Parser::new(tokens) with the vector lex returned
NewParser ==
    /\ phase = "idle"
    /\ ret.kind = "Ok"
    /\ tokens' = ret.tokens
    /\ phase' = "ready"
    /\ UNCHANGED <<result, input, pos, lexed, ret, overflow_checks, value, output, cpu, calc, game>>

\* Evaluator::new().eval(&program) with the program parse returned
Eval ==
    /\ phase = "parsed"
    /\ result.ok
    /\ value' = Evaluated(eval(result.val))
    /\ phase' = "evaluated"
    /\ UNCHANGED <<tokens, result, input, pos, lexed, ret, overflow_checks, output, cpu, calc, game>>

NextEval == LexPush \/ LexBreak \/ LexFail \/ LexPanic \/ NewParser \/ Parse \/ Eval

SpecEval == InitEval /\ [][NextEval]_vars

(***************************************************************************)
(* codegen.rs: the code generator.  A line of output is its text and, for  *)
(* the one formatted line, the number put after it.  A generator g is the  *)
(* output so far and ok, FALSE once an unimplemented!() has been reached.  *)
(***************************************************************************)
Line(text, n) == [text |-> text, n |-> n]
Asm(text) == Line(text, 0)

\* CodeGenerator::new
NewGenerator == [ok |-> TRUE, output |-> <<>>]

\* self.output.push, for each of the lines
Emit(g, lines) == [g EXCEPT !.output = @ \o lines]

\* unimplemented!()
Unimplemented(g) == [g EXCEPT !.ok = FALSE]

PopX0 == Asm("    ldr x0, [sp], #16")
PopX1 == Asm("    ldr x1, [sp], #16")
PushX0 == Asm("    str x0, [sp, #-16]!")

\* the lines of a binary operator after the code of its operands
binary_lines(op) ==
    CASE op = "Plus" -> <<PopX1, PopX0, Asm("    add x0, x0, x1"), PushX0>>
      [] op = "Minus" -> <<PopX1, PopX0, Asm("    sub x0, x0, x1"), PushX0>>
      [] op = "Mul" -> <<PopX1, PopX0, Asm("    mul x0, x0, x1"), PushX0>>
      [] op = "Div" -> <<PopX1, PopX0, Asm("    sdiv x0, x0, x1"), PushX0>>
      [] op = "Pow" ->
            <<PopX1, PopX0, Asm("    mov x2, #1"), Asm("0:  "), Asm("    mul x2, x2, x0"),
              Asm("    subs x1, x1, #1  ; b-- and set flags"), Asm("    b.ne 0b"),
              Asm("1:  "), Asm("    mov x0, x2"), PushX0>>
      [] op = "Eq" ->
            <<PopX1, PopX0, Asm("    cmp x0, x1"),
              Asm("    cset x0, eq  ; x0 = 1 if x0 == x1"), PushX0>>
      [] op = "Neq" ->
            <<PopX1, PopX0, Asm("    cmp x0, x1"),
              Asm("    cset x0, ne  ; x0 = 1 if x0 != x1"), PushX0>>
      [] op = "Gt" ->
            <<PopX1, PopX0, Asm("    cmp x0, x1"),
              Asm("    cset x0, gt  ; x0 = 1 if x0 > x1"), PushX0>>
      [] op = "GtEq" ->
            <<PopX1, PopX0, Asm("    cmp x0, x1"),
              Asm("    cset x0, ge  ; x0 = 1 if x0 >= x1"), PushX0>>
      [] op = "Lt" ->
            <<PopX1, PopX0, Asm("    cmp x0, x1"),
              Asm("    cset x0, lt  ; x0 = 1 if x0 < x1"), PushX0>>
      [] op = "LtEq" ->
            <<PopX1, PopX0, Asm("    cmp x0, x1"),
              Asm("    cset x0, le  ; x0 = 1 if x0 <= x1"), PushX0>>

\* the operands of a binary operator generated rhs first
RECURSIVE gen_expr(_, _)
operands_swapped(e, g) == Try(gen_expr(e.rhs, g), LAMBDA b : gen_expr(e.lhs, b))

\* `self.expr(lhs); self.expr(rhs);`
operands(e, g) == Try(gen_expr(e.lhs, g), LAMBDA a : gen_expr(e.rhs, a))

\* CodeGenerator::expr
gen_expr(e, g) ==
    CASE e.type = "Value" -> Emit(g, <<Line("    mov x0, #", e.v), PushX0>>)
      [] e.type = "Var" -> Unimplemented(g)
      [] e.type = "Unary" ->
            Try(gen_expr(e.expr, g), LAMBDA a :
            Emit(a, <<PopX0, Asm("    neg x0, x0"), PushX0>>))
      [] e.type = "Binary" /\ e.op = "Assign" -> Unimplemented(g)
      [] OTHER -> Try(operands(e, g), LAMBDA b : Emit(b, binary_lines(e.op)))

RECURSIVE gen_stmt(_, _)
\* `for s in then { self.stmt(s); }`
RECURSIVE gen_list(_, _, _)
gen_list(list, i, g) ==
    IF i > Len(list) THEN g
    ELSE Try(gen_stmt(list[i], g), LAMBDA r : gen_list(list, i + 1, r))

\* CodeGenerator::stmt
gen_stmt(s, g) ==
    CASE s.type = "ExpressionStatement" ->
            Try(gen_expr(s.expr, g), LAMBDA a : Emit(a, <<PopX0>>))
      [] s.type = "If" ->
            Try(gen_expr(s.cond, g), LAMBDA c :
            Try(gen_list(s.then, 1,
                         Emit(c, <<PopX0, Asm("    cmp x0, #0"),
                                   Asm("    b.eq .LelseXXX")>>)), LAMBDA t :
            Emit(t, <<Asm("    b .LendXXX"), Asm(".LelseXXX:"), Asm(".LendXXX:")>>)))
      [] OTHER -> Unimplemented(g)

\* CodeGenerator::generate(&mut self, program) on the generator g: the
\* lines are pushed after those self.output holds
generate_on(g, prog) ==
    Try(gen_list(prog.body, 1,
                 Emit(g, <<Asm("    .globl _main"), Asm("_main:")>>)), LAMBDA b :
    Emit(b, <<PopX0, Asm("    ret")>>))

\* CodeGenerator::new().generate(program)
generate(prog) == generate_on(NewGenerator, prog)

(***************************************************************************)
(* The machine the generated program runs on: the registers x0, x1, x2,    *)
(* the outcome cmp of the last flag-setting instruction (-1, 0, 1), and    *)
(* the stack, top last.  The lowest `base` slots of the stack belong to    *)
(* the caller of _main and hold what the caller left there.  A run is cut  *)
(* off after MaxSteps instructions and when a value leaves 32 bits.        *)
(***************************************************************************)
\* most instructions of one run
MaxSteps == 60
\* the slots of the caller below the stack pointer at entry
CallerSlots == 2
\* what the caller may have left in a slot or a register
Garbage == {0, 7}

\* the labels a program may define once
NamedLabels == {"_main:", ".LelseXXX:", ".LendXXX:"}

\* the assembler accepts the text: no symbol is defined twice
Assembles(out) ==
    \A l \in NamedLabels : Cardinality({i \in DOMAIN out : out[i].text = l}) <= 1

\* where a label is defined: the nearest definition before pc for `0b`, the
\* definition for a name
Backward(out, pc, l) ==
    CHOOSE i \in 1..(pc - 1) : out[i].text = l /\ \A k \in (i + 1)..(pc - 1) : out[k].text # l
Named(out, l) == CHOOSE i \in DOMAIN out : out[i].text = l

Boot(out, g) ==
    [state |-> "run", pc |-> Named(out, "_main:"), stack |-> [i \in 1..CallerSlots |-> g],
     x0 |-> g, x1 |-> g, x2 |-> g, cmp |-> 0, low |-> 0, steps |-> 0]

StackDepth(c) == Len(c.stack) - CallerSlots
Sign(n) == IF n < 0 THEN -1 ELSE IF n = 0 THEN 0 ELSE 1

Goto(c, pc) == [c EXCEPT !.pc = pc, !.steps = @ + 1]
Skip(c) == Goto(c, c.pc + 1)
Stop(c, state) == [c EXCEPT !.state = state]

\* str x0, [sp, #-16]!
Push(c) == Skip([c EXCEPT !.stack = Append(@, c.x0)])

\* ldr reg, [sp], #16
Pop(c, reg) ==
    IF c.stack = <<>> THEN Stop(c, "cut off")
    ELSE Skip([c EXCEPT ![reg] = c.stack[Len(c.stack)],
                        !.stack = SubSeq(@, 1, Len(@) - 1),
                        !.low = IF StackDepth(c) - 1 < @ THEN StackDepth(c) - 1 ELSE @])

\* an arithmetic instruction with destination reg
Compute(c, reg, a) ==
    IF a.of THEN Stop(c, "cut off") ELSE Skip([c EXCEPT ![reg] = a.v])

\* sdiv: a zero divisor gives 0
sdiv(a, b) == IF b = 0 THEN 0 ELSE wrapping_div(a, b)

Cset(c, holds) == Skip([c EXCEPT !.x0 = IF holds THEN 1 ELSE 0])

\* one instruction
exec(c, out) ==
    LET t == out[c.pc].text IN
    CASE t = "    mov x0, #" -> Skip([c EXCEPT !.x0 = out[c.pc].n])
      [] t = "    str x0, [sp, #-16]!" -> Push(c)
      [] t = "    ldr x0, [sp], #16" -> Pop(c, "x0")
      [] t = "    ldr x1, [sp], #16" -> Pop(c, "x1")
      [] t = "    neg x0, x0" -> Compute(c, "x0", overflowing_neg(c.x0))
      [] t = "    add x0, x0, x1" -> Compute(c, "x0", overflowing_add(c.x0, c.x1))
      [] t = "    sub x0, x0, x1" -> Compute(c, "x0", overflowing_sub(c.x0, c.x1))
      [] t = "    mul x0, x0, x1" -> Compute(c, "x0", overflowing_mul(c.x0, c.x1))
      [] t = "    sdiv x0, x0, x1" ->
            IF c.x0 = I32_MIN /\ c.x1 = -1 THEN Stop(c, "cut off")
            ELSE Skip([c EXCEPT !.x0 = sdiv(c.x0, c.x1)])
      [] t = "    mov x2, #1" -> Skip([c EXCEPT !.x2 = 1])
      [] t = "    mul x2, x2, x0" -> Compute(c, "x2", overflowing_mul(c.x2, c.x0))
      [] t = "    subs x1, x1, #1  ; b-- and set flags" ->
            IF c.x1 = I32_MIN THEN Stop(c, "cut off")
            ELSE Skip([c EXCEPT !.x1 = c.x1 - 1, !.cmp = Sign(c.x1 - 1)])
      [] t = "    b.ne 0b" ->
            IF c.cmp # 0 THEN Goto(c, Backward(out, c.pc, "0:  ")) ELSE Skip(c)
      [] t = "    mov x0, x2" -> Skip([c EXCEPT !.x0 = c.x2])
      [] t = "    cmp x0, x1" ->
            Skip([c EXCEPT !.cmp = IF c.x0 < c.x1 THEN -1 ELSE IF c.x0 = c.x1 THEN 0 ELSE 1])
      [] t = "    cmp x0, #0" -> Skip([c EXCEPT !.cmp = Sign(c.x0)])
      [] t = "    cset x0, eq  ; x0 = 1 if x0 == x1" -> Cset(c, c.cmp = 0)
      [] t = "    cset x0, ne  ; x0 = 1 if x0 != x1" -> Cset(c, c.cmp # 0)
      [] t = "    cset x0, gt  ; x0 = 1 if x0 > x1" -> Cset(c, c.cmp > 0)
      [] t = "    cset x0, ge  ; x0 = 1 if x0 >= x1" -> Cset(c, c.cmp >= 0)
      [] t = "    cset x0, lt  ; x0 = 1 if x0 < x1" -> Cset(c, c.cmp < 0)
      [] t = "    cset x0, le  ; x0 = 1 if x0 <= x1" -> Cset(c, c.cmp <= 0)
      [] t = "    b.eq .LelseXXX" ->
            IF c.cmp = 0 THEN Goto(c, Named(out, ".LelseXXX:")) ELSE Skip(c)
      [] t = "    b .LendXXX" -> Goto(c, Named(out, ".LendXXX:"))
      [] t = "    ret" -> Stop(c, "returned")
      [] OTHER -> Skip(c)

(***************************************************************************)
(* The compiler run: Parser::new(tokens).parse(), CodeGenerator::new()     *)
(* .generate(&program), and the run of the program once it is assembled.   *)
(***************************************************************************)
\* the expression statements: one and two operators over 1 and 2, every
\* operator of the parser, with and without parentheses and unary minus
GenOperators == {"+", "-", "*", "/", "^", ">", ">=", "<", "<="}
GenLiterals == {"1", "2"}
GenExprTexts ==
    {<<a>> : a \in GenLiterals}
    \cup {<<"-", a>> : a \in GenLiterals}
    \cup {<<a, op, b>> : a \in GenLiterals, b \in GenLiterals, op \in GenOperators}
    \cup {<<"-", a, op, "-", b>> : a \in GenLiterals, b \in GenLiterals, op \in GenOperators}
    \cup {<<"(", a, op, b, ")", oq, c>> :
            a \in GenLiterals, b \in GenLiterals, c \in GenLiterals,
            op \in GenOperators, oq \in GenOperators}
    \cup {<<a, op, "(", b, oq, c, ")">> :
            a \in GenLiterals, b \in GenLiterals, c \in GenLiterals,
            op \in GenOperators, oq \in GenOperators}
    \cup {<<"-", "(", a, op, b, ")">> : a \in GenLiterals, b \in GenLiterals, op \in GenOperators}

\* programs with statements: if, several ifs, and what is not implemented
GenSamples ==
    {<<"if", "(", "1", ")", "{", "2", ";", "}">>,
     <<"if", "(", "0", ")", "{", "2", ";", "}">>,
     <<"if", "(", "0", "-", "1", ")", "{", "2", ";", "}">>,
     <<"if", "(", "2", ">", "1", ")", "{", "1", ";", "2", ";", "}">>,
     <<"if", "(", "1", ")", "{", "}">>,
     <<"if", "(", "1", ")", "{", "2", ";", "}", "if", "(", "0", ")", "{", "1", ";", "}">>,
     <<"if", "(", "1", ")", "{", "if", "(", "2", ")", "{", "1", ";", "}", "}">>,
     <<"1", ";", "if", "(", "1", "<", "2", ")", "{", "2", ";", "}", "1", "+", "2", ";">>,
     <<"1", ";", "2", ";">>,
     <<"1", "+", "2", "*", "2", ";", "2", "-", "1", ";">>,
     <<"while", "(", "1", ")", "{", "}">>,
     <<"for", "(", ";", ";", ")", "{", "}">>,
     <<"{", "1", ";", "}">>,
     <<"x", "=", "1", ";">>,
     <<"x", ";">>,
     <<"if", "(", "x", ")", "{", "1", ";", "}">>,
     <<"1", "+", "x", ";">>,
     <<"if", "(", "1", ")", "{", "x", "=", "2", ";", "}">>,
     <<"2", "^", "0", ";">>,
     <<"1", "^", "0", ";">>,
     <<"0", "^", "0", ";">>,
     <<"2", "^", "3", ";">>,
     <<"3", "^", "2", ";">>}

GenTexts == {e \o <<";">> : e \in GenExprTexts} \cup GenSamples

InitGen ==
    /\ \E ws \in GenTexts : tokens = WordTokens(ws)
    /\ result = Unparsed
    /\ phase = "ready"
    /\ LexerIdle
    /\ EvaluatorIdle
    /\ GeneratorIdle
    /\ OthersIdle

\* CodeGenerator::new().generate(&program) with the program parse returned;
\* an unimplemented!() ends it with a panic
Generate ==
    /\ phase = "parsed"
    /\ result.ok
    /\ output' = generate(result.val).output
    /\ phase' = IF generate(result.val).ok THEN "generated" ELSE "panicked"
    /\ UNCHANGED <<tokens, result, input, pos, lexed, ret, overflow_checks, value, cpu, calc, game>>

\* generate(&program) called once more on the same CodeGenerator
GenerateAgain ==
    /\ phase = "generated"
    /\ output' = generate_on([ok |-> TRUE, output |-> output], result.val).output
    /\ phase' = "generated again"
    /\ UNCHANGED <<tokens, result, input, pos, lexed, ret, overflow_checks, value, cpu, calc, game>>

\* the assembled program is started
Start ==
    /\ phase = "generated"
    /\ Assembles(output)
    /\ \E g \in Garbage : cpu' = Boot(output, g)
    /\ phase' = "running"
    /\ UNCHANGED <<tokens, result, input, pos, lexed, ret, overflow_checks, value, output, calc, game>>

\* the machine executes the instruction at pc
Step ==
    /\ phase = "running"
    /\ cpu.state = "run"
    /\ cpu' = IF cpu.steps = MaxSteps THEN Stop(cpu, "cut off") ELSE exec(cpu, output)
    /\ UNCHANGED <<tokens, result, phase, input, pos, lexed, ret, overflow_checks, value, output, calc, game>>

NextGen == Parse \/ Generate \/ GenerateAgain \/ Start \/ Step

SpecGen == InitGen /\ [][NextGen]_vars

(***************************************************************************)
(* Vocabulary of the properties.                                           *)
(***************************************************************************)
Parsed == phase = "parsed"
Failed(kind) == Parsed /\ ~result.ok /\ result.err.kind = kind
Kinds(toks) == [i \in 1..Len(toks) |-> toks[i].kind]

\* the node an operand token becomes
Leaf(tok) == IF tok.kind = "Num" THEN Value(tok.val) ELSE Var(tok.val)

\* the expression of a program that is one expression statement
OnlyExpr(res) == res.val.body[1].expr
IsOneExprStmt(res) ==
    res.ok /\ Len(res.val.body) = 1 /\ res.val.body[1].type = "ExpressionStatement"

RECURSIVE ExprTargetsAreVars(_)
ExprTargetsAreVars(e) ==
    CASE e.type = "Binary" ->
            /\ e.op = "Assign" => e.lhs.type = "Var"
            /\ ExprTargetsAreVars(e.lhs)
            /\ ExprTargetsAreVars(e.rhs)
      [] e.type = "Unary" -> ExprTargetsAreVars(e.expr)
      [] OTHER -> TRUE

RECURSIVE StmtTargetsAreVars(_)
StmtTargetsAreVars(s) ==
    LET All(list) == \A i \in 1..Len(list) : StmtTargetsAreVars(list[i])
        Opt(o) == \A i \in 1..Len(o) : ExprTargetsAreVars(o[i])
    IN  CASE s.type = "ExpressionStatement" -> ExprTargetsAreVars(s.expr)
          [] s.type = "BlockStatement" -> All(s.body)
          [] s.type = "If" -> ExprTargetsAreVars(s.cond) /\ All(s.then)
          [] s.type = "While" -> ExprTargetsAreVars(s.cond) /\ All(s.body)
          [] s.type = "For" -> Opt(s.init) /\ Opt(s.cond) /\ Opt(s.update) /\ All(s.body)

\* the index of the first `=` token, 0 when there is none
FirstAssign(toks) ==
    LET at == {i \in 1..Len(toks) : toks[i].kind \in AssignKinds}
    IN  IF at = {} THEN 0 ELSE CHOOSE i \in at : \A j \in at : i <= j

\* C1: parse never returns a Program with an Assign node whose left child is
\* not a Var; an InvalidAssignmentTarget error carries the `=` token the
\* parser stopped at (peeked, not consumed); and whenever the tokens before
\* the first `=` form a complete expression that is not a Var, parsing fails
\* with InvalidAssignmentTarget carrying that `=`.
C1_AssignTargetIsVar ==
    Parsed =>
        /\ result.ok => \A i \in 1..Len(result.val.body) :
                            StmtTargetsAreVars(result.val.body[i])
        /\ Failed("InvalidAssignmentTarget") =>
              /\ result.pos < Len(tokens)
              /\ result.err.tok = tokens[result.pos + 1]
              /\ result.err.tok.kind \in AssignKinds
        /\ LET k == FirstAssign(tokens)
               before == parse(MkTokens(Kinds(SubSeq(tokens, 1, k - 1)) \o <<"Semicolon">>))
           IN  (k > 1 /\ IsOneExprStmt(before) /\ OnlyExpr(before).type # "Var") =>
                  /\ Failed("InvalidAssignmentTarget")
                  /\ result.err.tok = tokens[k]

\* C1 witness: "a + b = ..." was rejected at its `=`
C1_Witness ==
    /\ Failed("InvalidAssignmentTarget")
    /\ result.pos = 3
    /\ tokens[2].kind = "Plus"

\* an operand { op operand } ";" input with n >= 3 operands and one operator
IsOperand(tok) == tok.kind \in {"Num", "Ident"}
NumOperands(toks) == Len(toks) \div 2
IsChain(toks) ==
    /\ Len(toks) >= 6 /\ Len(toks) % 2 = 0
    /\ toks[Len(toks)].kind = "Semicolon"
    /\ \A i \in 1..NumOperands(toks) : IsOperand(toks[2 * i - 1])
    /\ \A i \in 1..(NumOperands(toks) - 1) : toks[2 * i].kind \in OperatorKinds
IsUniformChain(toks) ==
    /\ IsChain(toks)
    /\ \A i \in 1..(NumOperands(toks) - 1) : toks[2 * i].kind = toks[2].kind
    \* every assignment target of the chain is an identifier
    /\ toks[2].kind \in AssignKinds =>
          \A i \in 1..(NumOperands(toks) - 1) : toks[2 * i - 1].kind = "Ident"

\* ((x1 op x2) op x3) ... of the first n operands
RECURSIVE LeftNest(_, _)
LeftNest(toks, n) ==
    IF n = 1 THEN Leaf(toks[1])
    ELSE Binary(LeftNest(toks, n - 1), try_from(toks[2].kind), Leaf(toks[2 * n - 1]))

\* xi op (x(i+1) op ( ... xn))
RECURSIVE RightNest(_, _)
RightNest(toks, i) ==
    IF i = NumOperands(toks) THEN Leaf(toks[2 * i - 1])
    ELSE Binary(Leaf(toks[2 * i - 1]), try_from(toks[2].kind), RightNest(toks, i + 1))

RightAssociative == {"Pow", "Assign"}

\* C2: a chain of operands joined by one binary operator nests to the left
\* when the operator is left-associative and to the right when it is Pow or
\* Assign.
C2_Associativity ==
    (Parsed /\ IsUniformChain(tokens)) =>
        /\ IsOneExprStmt(result)
        /\ OnlyExpr(result) =
              IF try_from(tokens[2].kind) \in RightAssociative
              THEN RightNest(tokens, 1)
              ELSE LeftNest(tokens, NumOperands(tokens))

\* C2 witness: "a ^ b ^ c ;" has been parsed
C2_Witness ==
    /\ Parsed /\ IsUniformChain(tokens) /\ tokens[2].kind = "Pow"
    /\ result.ok /\ OnlyExpr(result).rhs.type = "Binary"

\* the six-level table: ASSIGN(1) < COMPARE(2) < PLUS/MINUS(3) < MUL/DIV(4)
\* < UNARY-MINUS(5) < POW(6)
CanonicalPrec(op) ==
    CASE op = "Assign" -> 1
      [] op \in {"Gt", "GtEq", "Lt", "LtEq"} -> 2
      [] op \in {"Plus", "Minus"} -> 3
      [] op \in {"Mul", "Div"} -> 4
      [] op = "Pow" -> 6

\* in "a op1 b op2 c", b belongs to op2
MiddleGoesRight(op1, op2) ==
    \/ CanonicalPrec(op2) > CanonicalPrec(op1)
    \/ CanonicalPrec(op2) = CanonicalPrec(op1) /\ op1 \in RightAssociative

IsThree(toks) == IsChain(toks) /\ Len(toks) = 6

Grouped(toks) ==
    LET op1 == try_from(toks[2].kind)
        op2 == try_from(toks[4].kind)
        a == Leaf(toks[1])
        b == Leaf(toks[3])
        c == Leaf(toks[5])
    IN  IF MiddleGoesRight(op1, op2)
        THEN Binary(a, op1, Binary(b, op2, c))
        ELSE Binary(Binary(a, op1, b), op2, c)

\* in "a op1 b op2 c", every `=` has an identifier as its left operand
TargetsAreIdents(toks) ==
    /\ toks[2].kind \in AssignKinds => toks[1].kind = "Ident"
    /\ toks[4].kind \in AssignKinds =>
          toks[2].kind \in AssignKinds /\ toks[3].kind = "Ident"

\* C3: the parser groups "a op1 b op2 c ;" by the table: b is a child of
\* op2's node exactly when op2 has the higher precedence, or the same
\* precedence with op1 right-associative, and of op1's node otherwise.  The
\* inputs whose grouping would put something other than an identifier to the
\* left of a `=` have no tree: they are rejected with InvalidAssignmentTarget.
C3_Precedence ==
    (Parsed /\ IsThree(tokens)) =>
        IF TargetsAreIdents(tokens)
        THEN IsOneExprStmt(result) /\ OnlyExpr(result) = Grouped(tokens)
        ELSE Failed("InvalidAssignmentTarget")

\* C3 witness: "a + b * c ;" was parsed with b under `*`
C3_Witness ==
    /\ Parsed /\ IsThree(tokens)
    /\ tokens[2].kind = "Plus" /\ tokens[4].kind = "Mul"
    /\ result.ok /\ OnlyExpr(result).rhs.type = "Binary"

\* "- a op b ;" with op an arithmetic or comparison operator
IsNegated(toks) ==
    /\ Len(toks) = 5
    /\ toks[1].kind = "Minus" /\ IsOperand(toks[2])
    /\ toks[3].kind \in BinaryOpKinds
    /\ IsOperand(toks[4]) /\ toks[5].kind = "Semicolon"

\* C4: for every binary operator other than Pow, "-a op b" parses as
\* Binary{Unary{Minus, a}, op, b}, and "-a ^ b" as Unary{Minus, Binary{a, Pow, b}}.
C4_UnaryMinus ==
    (Parsed /\ IsNegated(tokens)) =>
        /\ IsOneExprStmt(result)
        /\ OnlyExpr(result) =
              IF tokens[3].kind = "Pow"
              THEN Unary("Minus", Binary(Leaf(tokens[2]), "Pow", Leaf(tokens[4])))
              ELSE Binary(Unary("Minus", Leaf(tokens[2])), tokens[3].kind, Leaf(tokens[4]))

\* open parentheses minus closing ones among the first i tokens
Depth(toks, i) ==
    Cardinality({j \in 1..i : toks[j].kind = "LeftParen"})
        - Cardinality({j \in 1..i : toks[j].kind = "RightParen"})

\* a `)` with no open `(`
IsStray(toks, i) == toks[i].kind = "RightParen" /\ Depth(toks, i) < 0

\* the inner expression of the `(` at index i is complete and is followed
\* by a token other than `)` or by the end of the input
Unclosed(toks, i) ==
    LET inner == expr(toks, i, prec_LOWEST) IN
    /\ toks[i].kind = "LeftParen"
    /\ inner.ok
    /\ (is_eof(toks, inner.pos) \/ peek(toks, inner.pos).kind # "RightParen")

UnmatchedAt(res, tok) ==
    ~res.ok /\ res.err = SyntaxError("UnmatchedLeftParen", tok)

\* C5: when the inner expression of a `(` primary is complete and the next
\* token is not `)` or the input has ended, the primary fails with
\* UnmatchedLeftParen carrying that `(`, and so does parse when the `(` opens
\* the input; an UnmatchedLeftParen error always carries a `(` that was
\* consumed; and when the parser reaches a `)` that has no open `(`, parsing
\* fails with UnexpectedToken carrying that `)`.
C5_ParenBalance ==
    Parsed =>
        /\ \A i \in 1..Len(tokens) :
              Unclosed(tokens, i) => UnmatchedAt(primary(tokens, i - 1), tokens[i])
        /\ (tokens # <<>> /\ Unclosed(tokens, 1)) => UnmatchedAt(result, tokens[1])
        /\ Failed("UnmatchedLeftParen") =>
              /\ \E i \in 1..result.pos :
                    tokens[i] = result.err.tok /\ tokens[i].kind = "LeftParen"
              /\ result.eof \/ tokens[result.pos].kind # "RightParen"
        /\ \A i \in 1..Len(tokens) :
              (IsStray(tokens, i) /\ result.pos >= i) =>
                  /\ ~result.ok
                  /\ result.err = SyntaxError("UnexpectedToken", tokens[i])
                  /\ result.pos = i

\* C5 witness: "( 1 + 2" was rejected at the end of the input
C5_Witness ==
    /\ Failed("UnmatchedLeftParen")
    /\ Kinds(tokens) = <<"LeftParen", "Num", "Plus", "Num">>
    /\ result.eof

\* C6 as stated: a failed parse reports UnexpectedEof exactly when the
\* failing next() found the token stream at its end, and an UnexpectedToken
\* error carries the token the parser consumed last.
C6_Original ==
    (Parsed /\ ~result.ok) =>
        /\ result.eof <=> result.err.kind = "UnexpectedEof"
        /\ result.err.kind = "UnexpectedToken" => result.err.tok = tokens[result.pos]

\* C6 amended: UnexpectedEof is reported only when the stream ended where a
\* token was required, and always then (the empty input included) unless
\* the missing token is the `)` of a parenthesised primary, which is
\* reported as UnmatchedLeftParen with its `(`; UnexpectedToken is reported
\* only for a token that was read, and carries it; a token that cannot
\* continue the rule is reported as UnexpectedToken unless it is where the
\* `)` of a parenthesised primary should be (UnmatchedLeftParen) or is an `=`
\* after a non-Var (InvalidAssignmentTarget).
C6_EofAndUnexpected ==
    Parsed =>
        /\ tokens = <<>> => Failed("UnexpectedEof")
        /\ Failed("UnexpectedEof") => result.eof /\ result.pos = Len(tokens)
        /\ (~result.ok /\ result.eof) =>
              /\ result.pos = Len(tokens)
              /\ result.err.kind \in {"UnexpectedEof", "UnmatchedLeftParen"}
              /\ result.err.kind = "UnmatchedLeftParen" =>
                    /\ Depth(tokens, Len(tokens)) > 0
                    /\ result.err.tok.kind = "LeftParen"
        /\ Failed("UnexpectedToken") =>
              /\ ~result.eof /\ result.pos >= 1
              /\ result.err.tok = tokens[result.pos]
        /\ (~result.ok /\ ~result.eof) =>
              result.err.kind \in
                  {"UnexpectedToken", "UnmatchedLeftParen", "InvalidAssignmentTarget"}
        /\ result.ok => result.pos = Len(tokens)

\* C6 witness: the input ended inside an if statement
C6_Witness ==
    /\ Failed("UnexpectedEof")
    /\ tokens # <<>> /\ tokens[1].kind = "If"
    /\ Len(tokens) >= 4

(***************************************************************************)
(* Properties of the lexer.                                                *)
(***************************************************************************)
LexDone == ret.kind \in {"Ok", "Err", "Panic"}

OperatorChars == {"+", "-", "*", "/", "^", "(", ")", ";", "=", "{", "}", "<", ">"}

\* the text holds at most nine digits, so every digit run fits an i32
FewDigits(inp) == Cardinality({i \in 1..Len(inp) : is_ascii_digit(inp[i])}) <= 9

\* "=" "=", "!" "=", "<" "=", ">" "="
IsTwoCharOperator(inp) ==
    Len(inp) = 2 /\ inp[1] \in {"=", "!", "<", ">"} /\ inp[2] = "="

\* "=", "<" or ">" followed by a character other than "="
IsFallback(inp) ==
    Len(inp) = 2 /\ inp[1] \in {"=", "<", ">"} /\ inp[2] # "="

FallbackKind(c) == CASE c = "=" -> "Eq" [] c = "<" -> "Lt" [] c = ">" -> "Gt"

\* C7: each of "==", "!=", "<=", ">=" is lexed as one token with a 2-byte
\* span, and "=", "<", ">" followed by another character is lexed as the
\* single-character token with a 1-byte span, the next token starting after it.
C7_TwoCharOperators ==
    LexDone =>
        /\ IsTwoCharOperator(input) =>
              /\ ret.kind = "Ok"
              /\ Len(ret.tokens) = 1
              /\ ret.tokens[1].span = Span(0, 2)
        /\ IsFallback(input) =>
              /\ Len(lexed) >= 1
              /\ lexed[1].kind = FallbackKind(input[1])
              /\ lexed[1].span = Span(0, 1)
              /\ Len(lexed) >= 2 => lexed[2].span.start >= 1

\* the text of a token: the digits of a Num, the name of an Ident, the
\* word of a keyword, the characters of an operator
IsLexemeOf(text, tok) ==
    CASE tok.kind = "Num" ->
            /\ text # <<>>
            /\ \A i \in 1..Len(text) : is_ascii_digit(text[i])
            /\ parse_i32(text) = tok.val
      [] tok.kind = "Ident" -> text = tok.val
      [] tok.kind = "If" -> text = <<"i", "f">>
      [] tok.kind = "While" -> text = <<"w", "h", "i", "l", "e">>
      [] tok.kind = "For" -> text = <<"f", "o", "r">>
      [] tok.kind = "LtEq" -> text = <<"<", "=">>
      [] tok.kind = "GtEq" -> text = <<">", "=">>
      [] tok.kind = "Lt" -> text = <<"<">>
      [] tok.kind = "Gt" -> text = <<">">>
      [] OTHER -> Len(text) = 1 /\ text[1] \in OperatorChars
                    /\ SingleCharKind(text[1]) = tok.kind

SpanIsExact(inp, tok) ==
    /\ is_char_boundary(inp, tok.span.start)
    /\ is_char_boundary(inp, tok.span.end)
    /\ tok.span.start < tok.span.end
    /\ IsLexemeOf(Slice(inp, tok.span.start, tok.span.end), tok)

\* every character of the text is whitespace, an operator character, an
\* ASCII digit or a letter
IsTokenChar(c) ==
    is_whitespace(c) \/ c \in OperatorChars \/ is_ascii_digit(c) \/ is_alphabetic(c)
AllTokenChars(inp) == \A i \in 1..Len(inp) : IsTokenChar(inp[i])

\* C8: on a text of token characters, multi-byte letters included, lex
\* returns tokens, and the span of each is a byte range on character
\* boundaries whose text is the token's lexeme.
C8_SpansAreExact ==
    (LexDone /\ AllTokenChars(input) /\ FewDigits(input)) =>
        /\ ret.kind = "Ok"
        /\ \A i \in 1..Len(ret.tokens) : SpanIsExact(input, ret.tokens[i])

\* the index of the first character that is no token character, 0 if none
FirstInvalid(inp) ==
    LET bad == {i \in 1..Len(inp) : ~IsTokenChar(inp[i])}
    IN  IF bad = {} THEN 0 ELSE CHOOSE i \in bad : \A j \in bad : i <= j

\* C9: on a text with a character that is not whitespace, an operator
\* character, an ASCII digit or a letter, lex returns InvalidToken with the
\* first such character and its span, and no tokens.  (Texts with a
\* non-ASCII digit, which continues an identifier, are left out.)
C9_InvalidToken ==
    (LexDone /\ FirstInvalid(input) # 0 /\ FewDigits(input)
        /\ \A i \in 1..Len(input) : input[i] # "U+0663") =>
        LET i == FirstInvalid(input) IN
        /\ ret = LexErr(InvalidToken(input[i],
                    Span(Offset(input, i), Offset(input, i) + len_utf8(input[i]))))

IsAsciiLetter(c) == is_alphabetic(c) /\ len_utf8(c) = 1

\* an ASCII letter followed by ASCII letters and digits, and nothing else
IsAsciiWord(inp) ==
    /\ inp # <<>> /\ IsAsciiLetter(inp[1])
    /\ \A i \in 1..Len(inp) : IsAsciiLetter(inp[i]) \/ is_ascii_digit(inp[i])

KeywordOf(word) ==
    CASE word = <<"i", "f">> -> "If"
      [] word = <<"w", "h", "i", "l", "e">> -> "While"
      [] word = <<"f", "o", "r">> -> "For"
      [] OTHER -> "Ident"

\* C10: a text that is one word is lexed as one token: the keyword If,
\* While or For when the word is "if", "while" or "for", and Ident with the
\* whole word as its name otherwise.
C10_Keywords ==
    (LexDone /\ IsAsciiWord(input)) =>
        /\ ret.kind = "Ok"
        /\ Len(ret.tokens) = 1
        /\ ret.tokens[1].kind = KeywordOf(input)
        /\ ret.tokens[1].kind = "Ident" => ret.tokens[1].val = input
        /\ ret.tokens[1].span = Span(0, Len(input))

\* the text is one run of ASCII digits
IsDigitRun(inp) == inp # <<>> /\ \A i \in 1..Len(inp) : is_ascii_digit(inp[i])

\* the decimal digits of a natural number, most significant first
RECURSIVE ToDigits(_)
ToDigits(n) ==
    LET d == <<"0", "1", "2", "3", "4", "5", "6", "7", "8", "9">>[(n % 10) + 1]
    IN  IF n < 10 THEN <<d>> ELSE Append(ToDigits(n \div 10), d)

\* a digit run without its leading zeros ("0" for a run of zeros)
RECURSIVE StripZeros(_)
StripZeros(run) ==
    IF Len(run) > 1 /\ run[1] = "0" THEN StripZeros(Tail(run)) ELSE run

\* C11: a text that is one run of ASCII digits is lexed as exactly one Num
\* token that spans the run and whose value is the decimal value of the run
\* (its decimal digits are the run's, leading zeros aside); in particular
\* the conversion in next_number does not fail.
C11_DigitRuns ==
    (LexDone /\ IsDigitRun(input)) =>
        /\ ret.kind = "Ok"
        /\ Len(ret.tokens) = 1
        /\ ret.tokens[1].kind = "Num"
        /\ ret.tokens[1].span = Span(0, Len(input))
        /\ ret.tokens[1].val >= 0
        /\ ToDigits(ret.tokens[1].val) = StripZeros(input)

(***************************************************************************)
(* Properties of the interpreter.                                          *)
(***************************************************************************)
Evaluates == phase = "evaluated"

\* Conventional integer arithmetic over a token vector: statements E ";"
\* with  E -> T { (+|-) T },  T -> U { * U },  U -> - U | P,
\* P -> A [ ^ U ],  A -> number | ( E ),  computed left to right.  A result
\* is ok while the text is of this grammar, every exponent is at least 0 and
\* every value computed on the way is an i32.
Conv(v, p) == [ok |-> TRUE, val |-> v, pos |-> p]
NoConv == [ok |-> FALSE, val |-> 0, pos |-> 0]
conv_arith(a, p) == IF a.of THEN NoConv ELSE Conv(a.v, p)
kind_at(toks, p) == IF p < Len(toks) THEN toks[p + 1].kind ELSE "Eof"

RECURSIVE conv_sum(_, _)
RECURSIVE conv_sum_rest(_, _)
RECURSIVE conv_prod_rest(_, _)
RECURSIVE conv_unary(_, _)

conv_atom(toks, p) ==
    CASE kind_at(toks, p) = "Num" -> Conv(toks[p + 1].val, p + 1)
      [] kind_at(toks, p) = "LeftParen" ->
            Try(conv_sum(toks, p + 1), LAMBDA e :
            IF kind_at(toks, e.pos) = "RightParen" THEN Conv(e.val, e.pos + 1) ELSE NoConv)
      [] OTHER -> NoConv

conv_power(toks, p) ==
    Try(conv_atom(toks, p), LAMBDA b :
    IF kind_at(toks, b.pos) # "Pow" THEN b
    ELSE Try(conv_unary(toks, b.pos + 1), LAMBDA e :
         IF e.val < 0 THEN NoConv
         ELSE conv_arith(overflowing_pow(b.val, as_u32(e.val)), e.pos)))

conv_unary(toks, p) ==
    IF kind_at(toks, p) = "Minus"
    THEN Try(conv_unary(toks, p + 1), LAMBDA u : conv_arith(overflowing_neg(u.val), u.pos))
    ELSE conv_power(toks, p)

conv_prod_rest(toks, acc) ==
    IF kind_at(toks, acc.pos) # "Mul" THEN acc
    ELSE Try(conv_unary(toks, acc.pos + 1), LAMBDA u :
         Try(conv_arith(overflowing_mul(acc.val, u.val), u.pos), LAMBDA r :
         conv_prod_rest(toks, r)))

conv_prod(toks, p) == Try(conv_unary(toks, p), LAMBDA u : conv_prod_rest(toks, u))

conv_sum_rest(toks, acc) ==
    IF kind_at(toks, acc.pos) \notin {"Plus", "Minus"} THEN acc
    ELSE Try(conv_prod(toks, acc.pos + 1), LAMBDA t :
         Try(conv_arith(IF kind_at(toks, acc.pos) = "Plus"
                        THEN overflowing_add(acc.val, t.val)
                        ELSE overflowing_sub(acc.val, t.val), t.pos), LAMBDA r :
         conv_sum_rest(toks, r)))

conv_sum(toks, p) == Try(conv_prod(toks, p), LAMBDA t : conv_sum_rest(toks, t))

\* the value of the last statement
RECURSIVE conv_program(_, _)
conv_program(toks, p) ==
    Try(conv_sum(toks, p), LAMBDA e :
    IF kind_at(toks, e.pos) # "Semicolon" THEN NoConv
    ELSE IF e.pos + 1 = Len(toks) THEN e
    ELSE conv_program(toks, e.pos + 1))

Conventional(toks) == conv_program(toks, 0)

\* C12: when the lexer has returned the tokens of an arithmetic program
\* (literals, + - * ^, unary minus, parentheses) that conventional
\* precedence-respecting, left-to-right integer arithmetic gives a value,
\* the parser accepts them and Evaluator::eval returns that value, which is
\* the value of the last top-level statement.
C12_Arithmetic ==
    (ret.kind = "Ok" /\ Conventional(ret.tokens).ok) =>
        /\ Parsed => result.ok
        /\ Evaluates => value.kind = "Value" /\ value.val = Conventional(ret.tokens).val

\* The log of the evaluation.  Statements of a list run one after the
\* other and what they contain runs one level deeper, so the entry of a
\* statement that returns at j is the last "enter" of its depth before j.
Log == value.log
Returned(j, type) == Log[j].ev = "ret" /\ Log[j].s.type = type
EnterOf(j) ==
    CHOOSE e \in 1..(j - 1) :
        /\ Log[e].ev = "enter" /\ Log[e].d = Log[j].d
        /\ \A k \in (e + 1)..(j - 1) : ~(Log[k].ev = "enter" /\ Log[k].d = Log[j].d)

\* the entries of kind ev a statement made itself between a and b, and the
\* entries of the statements of its body
Own(ev, j, a, b) == {k \in (a + 1)..(b - 1) : Log[k].ev = ev /\ Log[k].d = Log[j].d}
Ran(j, a, b) == {k \in (a + 1)..(b - 1) : Log[k].ev = "stmt" /\ Log[k].d = Log[j].d + 1}

\* the statements of list ran between a and b, each once, all, in order
RanInOrder(j, a, b, list) ==
    /\ Cardinality(Ran(j, a, b)) = Len(list)
    /\ \A k \in Ran(j, a, b) :
        /\ Log[k].i = Cardinality({h \in Ran(j, a, b) : h <= k})
        /\ Log[k].s = list[Log[k].i]

\* the value of the last statement that ran between a and b, or otherwise
LastRan(j, a, b, otherwise) ==
    IF Ran(j, a, b) = {} THEN otherwise
    ELSE Log[CHOOSE k \in Ran(j, a, b) : \A h \in Ran(j, a, b) : h <= k].val

\* C13: an If statement that returns has evaluated its condition once; when
\* the condition was > 0 it ran the statements of `then`, all and in order,
\* and returns the value of the last one; when the condition was 0 or less
\* it ran nothing, returns 0 and leaves the environment the condition left.
C13_If ==
    Evaluates =>
        \A j \in DOMAIN Log : Returned(j, "If") =>
            /\ Cardinality(Own("cond", j, EnterOf(j), j)) = 1
            /\ \A c \in Own("cond", j, EnterOf(j), j) :
                IF Log[c].val > 0
                THEN /\ RanInOrder(j, c, j, Log[j].s.then)
                     /\ Ran(j, EnterOf(j), c) = {}
                     /\ Log[j].val = LastRan(j, c, j, 0)
                ELSE /\ j = c + 1
                     /\ Ran(j, EnterOf(j), j) = {}
                     /\ Log[j].val = 0
                     /\ Log[j].env = Log[c].env

\* an If with two statements was taken, and an If with a negative condition
\* was not
C13_Witness ==
    /\ Evaluates
    /\ \E j \in DOMAIN Log :
        /\ Returned(j, "If") /\ Len(Log[j].s.then) = 2 /\ Log[j].val = 2
    /\ \E j \in DOMAIN Log :
        /\ Returned(j, "If") /\ Len(Log[j].s.then) = 1 /\ Log[j - 1].val < 0

\* the next entry of kind "cond" of the statement after c, or j
NextTest(j, c) ==
    IF Own("cond", j, c, j) = {} THEN j
    ELSE CHOOSE n \in Own("cond", j, c, j) : \A h \in Own("cond", j, c, j) : n <= h

\* the loop of the statement that returns at j: a test comes first; after a
\* test that gave > 0 the whole body runs, in order, and the next test
\* follows; the test that gave 0 or less is the last one and the statement
\* returns at once.
TestedBeforeEveryIteration(j, body) ==
    /\ Own("cond", j, EnterOf(j), j) # {}
    /\ Ran(j, EnterOf(j), NextTest(j, EnterOf(j))) = {}
    /\ \A c \in Own("cond", j, EnterOf(j), j) :
        IF Log[c].val > 0
        THEN /\ NextTest(j, c) # j
             /\ RanInOrder(j, c, NextTest(j, c), body)
        ELSE j = c + 1

WhileExample ==
    WordTokens(<<"x", "=", "0", ";", "while", "(", "x", "<", "1", ")", "{", "x", "=", "1", ";", "}",
                 "x", ";">>)

\* C14: a While statement that returns has tested its condition before
\* every iteration, has run its whole body once after every test that gave
\* > 0, and returns after a test that gave 0 or less, with the value of the
\* last body statement that ran, or 0 when none ran;
\* "x=0; while(x<1){x=1;} x;" gives 1 after one iteration.
C14_While ==
    Evaluates =>
        /\ \A j \in DOMAIN Log : Returned(j, "While") =>
            /\ TestedBeforeEveryIteration(j, Log[j].s.body)
            /\ Log[j].val = LastRan(j, EnterOf(j), j, 0)
        /\ tokens = WhileExample =>
            /\ value.kind = "Value" /\ value.val = 1
            /\ Cardinality({k \in DOMAIN Log : Log[k].ev = "cond"}) = 2

\* a loop with a body of two statements returned after two iterations
C14_Witness ==
    /\ Evaluates
    /\ \E j \in DOMAIN Log :
        /\ Returned(j, "While") /\ Len(Log[j].s.body) = 2
        /\ Cardinality(Own("cond", j, EnterOf(j), j)) = 3
        /\ Log[j].val = 2

ForExample ==
    WordTokens(<<"for", "(", "x", "=", "0", ";", ";", ")", "{", "x", "=", "1", ";", "}", "x", ";">>)

BodyThenUpdate(j, c, f) ==
    /\ NextTest(j, c) # j
    /\ RanInOrder(j, c, NextTest(j, c), f.body)
    /\ IF f.update = None THEN Own("update", j, c, NextTest(j, c)) = {}
       ELSE /\ Cardinality(Own("update", j, c, NextTest(j, c))) = 1
            /\ \A u \in Own("update", j, c, NextTest(j, c)) :
                /\ \A k \in Ran(j, c, NextTest(j, c)) : k < u
                /\ \A k \in (u + 1)..(NextTest(j, c) - 1) : Log[k].d <= Log[j].d

\* init ran once, before the first test, when there is one
InitOnce(j, f) ==
    IF f.init = None THEN Own("init", j, EnterOf(j), j) = {}
    ELSE /\ Cardinality(Own("init", j, EnterOf(j), j)) = 1
         /\ Own("init", j, EnterOf(j), NextTest(j, EnterOf(j))) = Own("init", j, EnterOf(j), j)

\* the value of init, 0 without one
InitValue(j, f) ==
    IF f.init = None THEN 0
    ELSE Log[CHOOSE k \in Own("init", j, EnterOf(j), j) : TRUE].val

SumExample ==
    WordTokens(<<"for", "(", "ans", "=", "i", "=", "0", ";", "i", "<", "10", ";",
                 "i", "=", "i", "+", "1", ")",
                 "{", "ans", "=", "ans", "+", "i", ";", "}", "ans", ";">>)

Assigned(k) == Log[k].ev = "assign"
EnvBefore(k) ==
    IF \E p \in 1..(k - 1) : Assigned(p)
    THEN Log[CHOOSE p \in 1..(k - 1) :
                Assigned(p) /\ \A q \in (p + 1)..(k - 1) : ~Assigned(q)].env
    ELSE NoBindings

ProgramOf(ws) == tokens = WordTokens(ws)

\* C17: an assignment binds the name to the value of its right-hand side,
\* which is evaluated first and is the value of the assignment, replaces an
\* earlier binding of the name and leaves every other binding as it was;
\* nothing else changes the environment, no binding is removed, and a
\* binding made in a block, an if or a loop is seen by the statements after.
C17_Assign ==
    Evaluates =>
        /\ \A k \in DOMAIN Log :
            IF Assigned(k)
            THEN /\ Log[k].s.lhs.name \in DOMAIN Log[k].env
                 /\ Log[k].env[Log[k].s.lhs.name] = Log[k].val
                 /\ DOMAIN Log[k].env = DOMAIN EnvBefore(k) \cup {Log[k].s.lhs.name}
                 /\ \A x \in DOMAIN EnvBefore(k) \ {Log[k].s.lhs.name} :
                        Log[k].env[x] = EnvBefore(k)[x]
            ELSE Log[k].env = EnvBefore(k)
        /\ value.env = EnvBefore(Len(Log) + 1)
        /\ ProgramOf(<<"x", "=", "1", ";", "x", "=", "x", "+", "1", ";", "x", ";">>) =>
                value.val = 2
        /\ ProgramOf(<<"x", "=", "y", "=", "2", ";", "x", "+", "y", ";">>) => value.val = 4
        /\ ProgramOf(<<"x", "=", "1", ";", "y", "=", "2", ";", "x", "=", "3", ";", "y", ";">>) =>
                value.val = 2 /\ value.env = define(define(NoBindings, "x", 3), "y", 2)
        /\ ProgramOf(<<"if", "(", "1", ")", "{", "x", "=", "1", ";", "}", "x", ";">>) =>
                value.val = 1
        /\ ProgramOf(<<"{", "x", "=", "1", ";", "{", "x", "=", "x", "+", "1", ";", "}", "}",
                       "x", ";">>) => value.val = 2

\* x was bound, then y, then x again, and y was read
C17_Witness ==
    /\ Evaluates
    /\ ProgramOf(<<"x", "=", "1", ";", "y", "=", "2", ";", "x", "=", "3", ";", "y", ";">>)
    /\ value.kind = "Value"
    /\ Cardinality({k \in DOMAIN Log : Assigned(k)}) = 3

\* C18: an evaluation that reads a variable without a binding, or divides
\* by zero, ends with a runtime error value returned to the caller
\* (UnboundVariable, DivisionByZero): it does not end in a panic.
C18_RuntimeErrors ==
    (Evaluates /\ value.why \in {"unwrap on None", "attempt to divide by zero"}) =>
        value.kind = "Err"

(***************************************************************************)
(* Properties of the code generator.                                       *)
(***************************************************************************)
Runs == phase = "running"

\* the program is one expression statement; its expression; the lines of
\* the expression's code are 3 .. ExprEnd - 1, and ExprEnd is the pop of the
\* statement
IsExprProgram ==
    /\ result.ok
    /\ Len(result.val.body) = 1
    /\ result.val.body[1].type = "ExpressionStatement"
TheExpr == result.val.body[1].expr
ExprEnd == Len(output) - 2

\* how often the code of an expression pops and pushes when a literal
\* pushes once, unary minus pops once and pushes once, and a binary operator
\* pops twice and pushes once
RECURSIVE PopsOf(_)
PopsOf(e) ==
    CASE e.type = "Value" -> 0
      [] e.type = "Unary" -> PopsOf(e.expr) + 1
      [] OTHER -> PopsOf(e.lhs) + PopsOf(e.rhs) + 2
RECURSIVE PushesOf(_)
PushesOf(e) ==
    CASE e.type = "Value" -> 1
      [] e.type = "Unary" -> PushesOf(e.expr) + 1
      [] OTHER -> PushesOf(e.lhs) + PushesOf(e.rhs) + 1

LinesOf(texts) == {k \in 3..(ExprEnd - 1) : output[k].text \in texts}

\* C19: while the machine runs the code of an expression the stack never
\* goes below the depth at its start, and at its end the stack is one slot
\* deeper; the code holds one push per literal, one pop and one push per
\* unary minus, two pops and one push per binary operator, and the binary
\* operator takes rhs with its first pop and lhs with its second, so that
\* the slot left holds the value of the expression.
C19_StackDiscipline ==
    (Runs /\ IsExprProgram /\ cpu.pc <= ExprEnd) =>
        /\ cpu.low >= 0
        /\ StackDepth(cpu) >= 0
        /\ Cardinality(LinesOf({PopX0.text, PopX1.text})) = PopsOf(TheExpr)
        /\ Cardinality(LinesOf({PushX0.text})) = PushesOf(TheExpr)
        /\ (cpu.pc = ExprEnd /\ cpu.state = "run") =>
            /\ StackDepth(cpu) = 1
            /\ eval_expr(TheExpr, NewMachine).ok =>
                    cpu.stack[Len(cpu.stack)] = eval_expr(TheExpr, NewMachine).val

\* the code of 2 - (1 ^ 2), a binary operator over a binary operator with a
\* loop, has run to its end
C19_Witness ==
    /\ Runs /\ IsExprProgram /\ cpu.pc = ExprEnd /\ cpu.state = "run"
    /\ TheExpr = Binary(Value(2), "Minus", Binary(Value(1), "Pow", Value(2)))
    /\ cpu.stack[Len(cpu.stack)] = 1

\* the lines of the output that define the label l
DefinitionsOf(l) == {i \in DOMAIN output : output[i].text = l}

\* C20: in the assembly generated for any program every else label and every
\* end label is defined at most once, so that each branch of an If has the
\* label of its own If to go to.
C20_UniqueLabels ==
    phase = "generated" =>
        \A l \in {".LelseXXX:", ".LendXXX:"} : Cardinality(DefinitionsOf(l)) <= 1

\* the program is lhs ^ rhs; over two literals, rhs >= 0
IsPowProgram ==
    /\ IsExprProgram
    /\ TheExpr.type = "Binary" /\ TheExpr.op = "Pow"
    /\ TheExpr.lhs.type = "Value" /\ TheExpr.rhs.type = "Value"
    /\ TheExpr.rhs.v >= 0

\* the machine is at the branch that closes the loop
AtLoopBranch == cpu.state = "run" /\ output[cpu.pc].text = "    b.ne 0b"

\* C21: the counted loop generated for lhs ^ rhs with rhs >= 0 ends after
\* exactly rhs multiplications (at the closing branch the counter x1 is the
\* number of multiplications still to do and x2 the product of those done)
\* and pushes lhs ^ rhs, the value of the interpreter, lhs ^ 0 = 1 included.
C21_PowLoop ==
    (Runs /\ IsPowProgram) =>
        /\ cpu.state # "cut off"
        /\ AtLoopBranch =>
            /\ cpu.x1 >= 0
            /\ cpu.x2 = overflowing_pow(TheExpr.lhs.v, as_u32(TheExpr.rhs.v - cpu.x1)).v
        /\ (cpu.state = "run" /\ cpu.pc = ExprEnd) =>
            cpu.stack[Len(cpu.stack)] = eval_expr(TheExpr, NewMachine).val

\* the program is one If statement with a statement in `then`
IsIfProgram ==
    /\ result.ok
    /\ Len(result.val.body) = 1
    /\ result.val.body[1].type = "If"
    /\ result.val.body[1].then # <<>>

\* the first line of the `then` branch and the line of the else label
ThenLine == (CHOOSE i \in DOMAIN output : output[i].text = "    b.eq .LelseXXX") + 1
ElseLine == CHOOSE i \in DOMAIN output : output[i].text = ".LelseXXX:"

\* the interpreter runs a statement of `then` on the same program
InterpreterTakesThen ==
    \E k \in DOMAIN eval(result.val).log :
        eval(result.val).log[k].ev = "stmt" /\ eval(result.val).log[k].d = 1

\* C22: for every If statement and every value of its condition, positive,
\* zero or negative, the generated code enters the `then` branch exactly
\* when the interpreter runs it: the machine is at the first line of `then`
\* only if the interpreter takes the branch, and at the else label, which
\* only the conditional branch reaches, only if the interpreter skips it.
C22_IfAgrees ==
    (Runs /\ IsIfProgram /\ cpu.state = "run") =>
        /\ cpu.pc = ThenLine => InterpreterTakesThen
        /\ cpu.pc = ElseLine => ~InterpreterTakesThen

\* C23: generate returns assembly text for every Program the parser can
\* produce; While, For, BlockStatement, Assign and Var are lowered, and
\* none of them makes the generation abort.
C23_GenerateTotal ==
    (Parsed /\ result.ok) => generate(result.val).ok

\* the lines of the output with the text t
LinesWith(t) == {i \in DOMAIN output : output[i].text = t}

\* C24: generate called a second time with the same Program on the same
\* CodeGenerator returns the text the first call returned, with exactly one
\* `.globl _main` / `_main:` header and one final `ret`.
C24_GenerateTwice ==
    phase = "generated again" =>
        /\ output = generate(result.val).output
        /\ LinesWith("    .globl _main") = {1}
        /\ LinesWith("_main:") = {2}
        /\ LinesWith("    ret") = {Len(output)}

\* C27: when the generated program reaches `ret` the stack is as deep as at
\* the entry to _main, no pop has read a slot the program did not push, and
\* x0 holds the value of the last top-level statement.
C27_BalancedAtRet ==
    (Runs /\ cpu.state = "returned") =>
        /\ StackDepth(cpu) = 0
        /\ cpu.low >= 0
        /\ eval(result.val).ok => cpu.x0 = eval(result.val).val

(***************************************************************************)
(* Progress of the parser.                                                 *)
(***************************************************************************)
Cursors == 0..Len(tokens)
MinPrecs == {prec_LOWEST, prec_ASSIGN, prec_COMPARE, prec_PLUS, prec_MUL, prec_UNARY, prec_POW}

\* a call that starts at cursor p and returns r never moves the cursor back,
\* and moves it forward when it succeeds
Forward(p, r) == r.pos >= p /\ r.pos <= Len(tokens) /\ (r.ok => r.pos > p)

\* C28: parsing a finite token sequence makes progress and ends: from every
\* cursor the calls of stmt, expr and primary leave the cursor where it was
\* or further on, every successful one consumes at least one token, and
\* parse returns Ok only when every token has been consumed.
C28_ParserProgress ==
    Parsed =>
        /\ result.pos \in Cursors
        /\ result.ok => result.pos = Len(tokens)
        /\ \A p \in Cursors :
            /\ Forward(p, stmt(tokens, p))
            /\ Forward(p, primary(tokens, p))
            /\ \A m \in MinPrecs : Forward(p, expr(tokens, p, m))

\* a program of two statements, the second a loop with a body, was parsed
\* to its last token
C28_Witness ==
    /\ Parsed /\ result.ok /\ result.pos = Len(tokens)
    /\ Len(result.val.body) = 2
    /\ result.val.body[2].type = "While"
    /\ result.val.body[2].body # <<>>

(***************************************************************************)
(* parser/src/main.rs: the calculator.  process(tokens) turns the infix    *)
(* tokens into reverse Polish notation with an operator stack              *)
(* (infix_to_rpn) and evaluates that on a value stack (evaluate_rpn).  A   *)
(* token is its kind and, for Num, its number.                             *)
(***************************************************************************)
\* most binary operators of a drawn infix sequence
MaxCalcOps == 2

Tok(kind, n) == [kind |-> kind, n |-> n]
Num(n) == Tok("Num", n)
Op(kind) == Tok(kind, 0)
CalcOperators == {"Plus", "Minus", "Mul", "Div"}

\* every binary operator has the precedence of + and -
precedence_flat(tok) == 1

\* Token::precedence of parser/src/main.rs
precedence(tok) ==
    CASE tok.kind \in {"Plus", "Minus"} -> 1
      [] tok.kind \in {"Mul", "Div"} -> 2
      [] OTHER -> 999

\* an operator leaves the stack only for a new one of lower precedence
stays_below_strictly(op, tok) == precedence(op) > precedence(tok)

\* `op.precedence() >= tok.precedence()`: op leaves the stack before tok
\* is pushed
leaves_before(op, tok) == precedence(op) >= precedence(tok)

\* the outcome of a computation: a value, or the panic that ended it
Done(v) == [ok |-> TRUE, val |-> v, why |-> ""]
Panics(why) == [ok |-> FALSE, val |-> 0, why |-> why]

\* an i32 operator of the build: an overflow panics when the build checks
\* for it and wraps when it does not
checked(a) == IF a.of /\ overflow_checks THEN Panics("arithmetic overflow") ELSE Done(a.v)

\* lhs / rhs
checked_div(a, b) ==
    IF b = 0 THEN Panics("attempt to divide by zero")
    ELSE IF a = I32_MIN /\ b = -1 THEN Panics("attempt to divide with overflow")
    ELSE Done(wrapping_div(a, b))

\* apply_op
apply_op(tok, lhs, rhs) ==
    CASE tok.kind = "Plus" -> checked(overflowing_add(lhs, rhs))
      [] tok.kind = "Minus" -> checked(overflowing_sub(lhs, rhs))
      [] tok.kind = "Mul" -> checked(overflowing_mul(lhs, rhs))
      [] tok.kind = "Div" -> checked_div(lhs, rhs)
      [] OTHER -> Panics("not implemented")

\* the locals when process is called with the tokens toks: infix_to_rpn is
\* at the i-th token of its input
NewCalc(toks) ==
    [state |-> "rpn", input |-> toks, i |-> 1, output |-> <<>>, ops_stack |-> <<>>,
     j |-> 1, stack |-> <<>>, val |-> 0, why |-> ""]

Top(st) == st[Len(st)]
Popped(st) == SubSeq(st, 1, Len(st) - 1)

\* the infix sequences: operands and operators alternating, from an operand
\* to an operand
CalcLiterals == {1, 2, 3}
RECURSIVE Alternating(_)
Alternating(n) ==
    IF n = 0 THEN {<<Num(a)>> : a \in CalcLiterals}
    ELSE {c \o <<Op(op), Num(a)>> :
            c \in Alternating(n - 1), op \in CalcOperators, a \in CalcLiterals}

\* the documented sequences, sequences with 0, with a division by zero,
\* with an overflow, and sequences that do not alternate
CalcSamples ==
    {<<Num(1), Op("Minus"), Num(2), Op("Minus"), Num(3)>>,
     <<Num(1), Op("Plus"), Num(2), Op("Mul"), Num(3)>>,
     <<Num(1), Op("Plus"), Num(2), Op("Plus"), Num(3)>>,
     <<Num(1), Op("Mul"), Num(2), Op("Mul"), Num(3)>>,
     <<Num(7), Op("Div"), Num(2), Op("Div"), Num(2)>>,
     <<Num(7), Op("Minus"), Num(7), Op("Div"), Num(2), Op("Mul"), Num(2)>>,
     <<Num(2), Op("Mul"), Num(3), Op("Minus"), Num(7), Op("Div"), Num(2), Op("Plus"), Num(1)>>,
     <<Num(0), Op("Div"), Num(7)>>,
     <<Num(0), Op("Minus"), Num(7), Op("Div"), Num(2)>>,
     <<Num(1), Op("Div"), Num(0)>>,
     <<Num(1), Op("Plus"), Num(2), Op("Div"), Num(0)>>,
     <<Num(I32_MAX), Op("Plus"), Num(1)>>,
     <<Num(1), Op("Plus"), Num(65536), Op("Mul"), Num(65536)>>,
     <<Num(0), Op("Minus"), Num(I32_MAX), Op("Minus"), Num(2)>>,
     <<Num(I32_MAX), Op("Plus"), Num(1), Op("Minus"), Num(1)>>,
     <<>>,
     <<Op("Plus")>>,
     <<Num(1), Op("Plus")>>,
     <<Op("Mul"), Num(1)>>,
     <<Num(1), Num(2)>>,
     <<Num(1), Op("Plus"), Op("Minus"), Num(2)>>}

CalcInputs == UNION {Alternating(n) : n \in 0..MaxCalcOps} \cup CalcSamples

\* process(input) is called with what Lexer::lex returned
InitCalc ==
    /\ overflow_checks \in BOOLEAN
    /\ \E toks \in CalcInputs : calc = NewCalc(toks)
    /\ tokens = <<>>
    /\ result = Unparsed
    /\ phase = "calc"
    /\ LexerIdle
    /\ value = NotEvaluated
    /\ GeneratorIdle
    /\ game = [state |-> "off"]

CalcStep(c) ==
    /\ calc' = c
    /\ UNCHANGED <<tokens, result, phase, input, pos, lexed, ret, overflow_checks, value,
                   output, cpu, game>>

IsOperator(tok) == tok.kind \in CalcOperators
InInput == calc.state = "rpn" /\ calc.i <= Len(calc.input)

\* infix_to_rpn, `Token::Num(_) => output.push(tok)`
RpnNum ==
    /\ InInput
    /\ calc.input[calc.i].kind = "Num"
    /\ CalcStep([calc EXCEPT !.output = Append(@, calc.input[calc.i]), !.i = @ + 1])

\* infix_to_rpn, one pass of `while let Some(op) = ops_stack.last() && ...`
RpnPop ==
    /\ InInput
    /\ IsOperator(calc.input[calc.i])
    /\ calc.ops_stack # <<>>
    /\ leaves_before(Top(calc.ops_stack), calc.input[calc.i])
    /\ CalcStep([calc EXCEPT !.output = Append(@, Top(calc.ops_stack)),
                             !.ops_stack = Popped(@)])

\* infix_to_rpn, `ops_stack.push(tok)` when the while loop is left
RpnPush ==
    /\ InInput
    /\ IsOperator(calc.input[calc.i])
    /\ ~(calc.ops_stack # <<>> /\ leaves_before(Top(calc.ops_stack), calc.input[calc.i]))
    /\ CalcStep([calc EXCEPT !.ops_stack = Append(@, calc.input[calc.i]), !.i = @ + 1])

\* infix_to_rpn, `while let Some(op) = ops_stack.pop() { output.push(op) }`,
\* and the return of output to evaluate_rpn when the stack is empty
RpnDrain ==
    /\ calc.state = "rpn"
    /\ calc.i > Len(calc.input)
    /\ IF calc.ops_stack # <<>>
       THEN CalcStep([calc EXCEPT !.output = Append(@, Top(calc.ops_stack)),
                                  !.ops_stack = Popped(@)])
       ELSE CalcStep([calc EXCEPT !.state = "eval"])

InRpn == calc.state = "eval" /\ calc.j <= Len(calc.output)

\* evaluate_rpn, `Token::Num(n) => stack.push(n)`
EvalNum ==
    /\ InRpn
    /\ calc.output[calc.j].kind = "Num"
    /\ CalcStep([calc EXCEPT !.stack = Append(@, calc.output[calc.j].n), !.j = @ + 1])

\* the operator arm of evaluate_rpn on the stack st
operator_arm(c, tok) ==
    IF Len(c.stack) = 0 THEN [c EXCEPT !.state = "err", !.why = "stack underflow (rhs)"]
    ELSE IF Len(c.stack) = 1
    THEN [c EXCEPT !.state = "err", !.why = "stack underflow (lhs)", !.stack = Popped(@)]
    ELSE IF apply_op(tok, c.stack[Len(c.stack) - 1], Top(c.stack)).ok
    THEN [c EXCEPT !.stack = Append(Popped(Popped(@)),
                                    apply_op(tok, c.stack[Len(c.stack) - 1], Top(c.stack)).val),
                   !.j = @ + 1]
    ELSE [c EXCEPT !.state = "panic", !.stack = Popped(Popped(@)),
                   !.why = apply_op(tok, c.stack[Len(c.stack) - 1], Top(c.stack)).why]

\* evaluate_rpn, the arm of the four operators
EvalOp ==
    /\ InRpn
    /\ IsOperator(calc.output[calc.j])
    /\ CalcStep(operator_arm(calc, calc.output[calc.j]))

\* evaluate_rpn, `assert!(stack.len() == 1); Ok(stack[0])`
EvalEnd ==
    /\ calc.state = "eval"
    /\ calc.j > Len(calc.output)
    /\ IF Len(calc.stack) = 1
       THEN CalcStep([calc EXCEPT !.state = "ok", !.val = calc.stack[1]])
       ELSE CalcStep([calc EXCEPT !.state = "panic", !.why = "assertion failed"])

NextCalc == RpnNum \/ RpnPop \/ RpnPush \/ RpnDrain \/ EvalNum \/ EvalOp \/ EvalEnd

SpecCalc == InitCalc /\ [][NextCalc]_vars

(***************************************************************************)
(* climbing-parser/src/main.rs: the precedence-climbing parser over the    *)
(* same tokens and Expression::eval.  The parser panics where it cannot go *)
(* on; a result carries the cursor (tokens yielded so far).                *)
(***************************************************************************)
NumExpr(v) == [type |-> "Num", v |-> v]
At(e, p) == [ok |-> TRUE, val |-> e, pos |-> p, why |-> ""]
PanicsAt(why, p) == [ok |-> FALSE, val |-> <<>>, pos |-> p, why |-> why]

\* Token::precedence of climbing-parser/src/main.rs, an Option<u8>
climb_precedence(tok) ==
    CASE tok.kind \in {"Plus", "Minus"} -> Some(1)
      [] tok.kind \in {"Mul", "Div"} -> Some(2)
      [] OTHER -> None

\* debug_assert! is compiled in by the profile that checks for overflow
debug_assertions == overflow_checks

RECURSIVE climb_expression(_, _, _), climb_loop(_, _, _, _)

\* Parser::primary
climb_primary(toks, p) ==
    IF p >= Len(toks) THEN PanicsAt("unexpected token in primary", p)
    ELSE CASE toks[p + 1].kind = "Num" -> At(NumExpr(toks[p + 1].n), p + 1)
           [] toks[p + 1].kind = "Minus" ->
                Try(climb_expression(toks, p + 1, 3), LAMBDA r :
                At(Unary("Minus", r.val), r.pos))
           [] toks[p + 1].kind = "LeftParen" ->
                Try(climb_expression(toks, p + 1, 0), LAMBDA r :
                IF r.pos < Len(toks) /\ toks[r.pos + 1].kind = "RightParen"
                THEN At(r.val, r.pos + 1)
                ELSE PanicsAt("missing closing parenthesis",
                              IF r.pos < Len(toks) THEN r.pos + 1 ELSE r.pos))
           [] OTHER -> PanicsAt("unexpected token in primary", p + 1)

\* the `loop` of Parser::expression
climb_loop(toks, p, lhs, min_prec) ==
    IF p >= Len(toks) THEN At(lhs, p)
    ELSE IF climb_precedence(toks[p + 1]) = None THEN At(lhs, p)
    ELSE IF climb_precedence(toks[p + 1])[1] < min_prec THEN At(lhs, p)
    ELSE Try(climb_expression(toks, p + 1, climb_precedence(toks[p + 1])[1] + 1), LAMBDA r :
         climb_loop(toks, r.pos, Binary(lhs, toks[p + 1].kind, r.val), min_prec))

\* Parser::expression
climb_expression(toks, p, min_prec) ==
    Try(climb_primary(toks, p), LAMBDA l : climb_loop(toks, l.pos, l.val, min_prec))

\* Parser::parse
climb_parse(toks) ==
    Try(climb_expression(toks, 0, 0), LAMBDA e :
    IF debug_assertions /\ e.pos < Len(toks) THEN PanicsAt("assertion failed", e.pos + 1)
    ELSE e)

\* Expression::eval
RECURSIVE climb_eval(_)
climb_eval(e) ==
    CASE e.type = "Num" -> Done(e.v)
      [] e.type = "Unary" ->
            Try(climb_eval(e.expr), LAMBDA a : checked(overflowing_neg(a.val)))
      [] e.type = "Binary" ->
            Try(climb_eval(e.lhs), LAMBDA a :
            Try(climb_eval(e.rhs), LAMBDA b :
            CASE e.op = "Plus" -> checked(overflowing_add(a.val, b.val))
              [] e.op = "Minus" -> checked(overflowing_sub(a.val, b.val))
              [] e.op = "Mul" -> checked(overflowing_mul(a.val, b.val))
              [] e.op = "Div" -> checked_div(a.val, b.val)))

\* `parser.parse().eval()` of the tests of climbing-parser
climb(toks) == Try(climb_parse(toks), LAMBDA e : climb_eval(e.val))

(***************************************************************************)
(* Properties of the calculator.                                           *)
(***************************************************************************)
\* integer literals and binary operators alternate, from a literal to a
\* literal
WellFormed(toks) ==
    /\ Len(toks) % 2 = 1
    /\ \A k \in DOMAIN toks : IF k % 2 = 1 THEN toks[k].kind = "Num" ELSE IsOperator(toks[k])

StackFailures == {"stack underflow (rhs)", "stack underflow (lhs)", "assertion failed"}

\* C29: on a sequence that alternates literals and binary operators from a
\* literal to a literal, evaluate_rpn never reports a stack underflow, the
\* assertion stack.len() == 1 holds when it is reached and a result is
\* returned from a stack of exactly one value, and all through infix_to_rpn
\* the precedences on the operator stack increase strictly from the bottom
\* to the top.
C29_RpnStacks ==
    (phase = "calc" /\ WellFormed(calc.input)) =>
        /\ calc.why \notin StackFailures
        /\ calc.state # "err"
        /\ (calc.state = "eval" /\ calc.j > Len(calc.output)) => Len(calc.stack) = 1
        /\ calc.state = "ok" => calc.stack = <<calc.val>>
        /\ \A k \in 1..(Len(calc.ops_stack) - 1) :
            precedence(calc.ops_stack[k]) < precedence(calc.ops_stack[k + 1])

\* 2 * 3 - 7 / 2 + 1 was evaluated to 4
C29_Witness ==
    /\ phase = "calc" /\ calc.state = "ok" /\ calc.val = 4
    /\ calc.input = <<Num(2), Op("Mul"), Num(3), Op("Minus"), Num(7), Op("Div"), Num(2),
                      Op("Plus"), Num(1)>>

\* no division has the literal 0 as its divisor
NoDivisionByZero(toks) ==
    \A k \in DOMAIN toks : (toks[k].kind = "Div" /\ k < Len(toks)) => toks[k + 1] # Num(0)

\* C25: on a well-formed infix sequence over integer literals and + - * /
\* without a division by zero, process returns the integer that
\* parse().eval() of the precedence-climbing parser returns on the same
\* tokens, and where one of them ends in an arithmetic panic so does the
\* other: * and / bind tighter than + and -, and operators of the same
\* precedence apply from left to right.
C25_SameAsClimbing ==
    (phase = "calc" /\ WellFormed(calc.input) /\ NoDivisionByZero(calc.input)) =>
        /\ calc.state = "ok" => climb(calc.input) = Done(calc.val)
        /\ calc.state = "panic" => climb(calc.input) = Panics(calc.why)
        /\ calc.state # "err"
        /\ (calc.state = "ok" /\ calc.input = <<Num(1), Op("Minus"), Num(2), Op("Minus"), Num(3)>>)
                => calc.val = -4
        /\ (calc.state = "ok" /\ calc.input = <<Num(1), Op("Plus"), Num(2), Op("Mul"), Num(3)>>)
                => calc.val = 7

\* 7 - 7 / 2 * 2 gave 1 in both
C25_Witness ==
    /\ phase = "calc" /\ calc.state = "ok" /\ calc.val = 1
    /\ calc.input = <<Num(7), Op("Minus"), Num(7), Op("Div"), Num(2), Op("Mul"), Num(2)>>
    /\ climb(calc.input) = Done(1)

(***************************************************************************)
(* simple-porker/src/main.rs and io.rs: the poker game.  A card is its     *)
(* suit and its number (1 the ace, 11 to 13 jack, queen, king); the deck   *)
(* is a vector whose last card is drawn; the hand is an array of five.     *)
(***************************************************************************)
Suits == <<"Clover", "Diamond", "Heart", "Spade">>
Card(suit, number) == [suit |-> suit, number |-> number]

\* Deck::new before the shuffle: the four suits of 1, of 2, ... of 13
NewDeck == [k \in 1..52 |-> Card(Suits[((k - 1) % 4) + 1], ((k - 1) \div 4) + 1)]

Reverse(q) == [k \in 1..Len(q) |-> q[Len(q) + 1 - k]]

\* the orders cards.shuffle is let leave the deck in
Shuffles == {NewDeck, Reverse(NewDeck)}

\* Hands::new_from_deck: five times Deck::draw, the pop of the last card
new_from_deck(deck) ==
    [hand |-> [k \in 1..5 |-> deck[Len(deck) + 1 - k]],
     deck |-> SubSeq(deck, 1, Len(deck) - 5)]

\* numbers.sort_unstable(): the numbers in ascending order
RECURSIVE insert(_, _)
insert(q, n) ==
    IF q = <<>> THEN <<n>>
    ELSE IF n <= Head(q) THEN <<n>> \o q
    ELSE <<Head(q)>> \o insert(Tail(q), n)
sort_unstable(q) == insert(insert(insert(insert(insert(<<>>, q[1]), q[2]), q[3]), q[4]), q[5])

\* calc_straight without the two patterns named after the loop
calc_consecutive(nums) == \A k \in 1..4 : nums[k + 1] = nums[k] + 1

\* HandStats::calc_straight on the sorted numbers
calc_straight(nums) ==
    \/ \A k \in 1..4 : nums[k + 1] = nums[k] + 1
    \/ nums = <<1, 2, 3, 4, 5>>
    \/ nums = <<1, 10, 11, 12, 13>>

\* HandStats::from
HowMany(hand, n) == Cardinality({k \in 1..5 : hand[k].number = n})
HandStats(hand) ==
    [counts   |-> [n \in 1..13 |-> HowMany(hand, n)],
     highest  |-> sort_unstable([k \in 1..5 |-> hand[k].number])[5],
     flush    |-> \E s \in 1..4 : Cardinality({k \in 1..5 : hand[k].suit = Suits[s]}) = 5,
     straight |-> calc_straight(sort_unstable([k \in 1..5 |-> hand[k].number])),
     pairs    |-> Cardinality({n \in 1..13 : HowMany(hand, n) = 2}),
     triples  |-> Cardinality({n \in 1..13 : HowMany(hand, n) = 3}),
     quads    |-> Cardinality({n \in 1..13 : HowMany(hand, n) = 4})]

is_royal_straight_flush(stats) ==
    /\ stats.flush /\ stats.straight
    /\ stats.counts[1] = 1 /\ stats.counts[10] = 1 /\ stats.counts[11] = 1
    /\ stats.counts[12] = 1 /\ stats.counts[13] = 1

Rank(name) == [name |-> name, n |-> 0]
HighCard(n) == [name |-> "HighCard", n |-> n]

\* Rank::evaluate on the statistics of the hand
evaluate_stats(stats) ==
    IF is_royal_straight_flush(stats) THEN Rank("RoyalStraightFlush")
    ELSE IF stats.flush /\ stats.straight THEN Rank("StraightFlush")
    ELSE IF stats.quads = 1 THEN Rank("FourCard")
    ELSE IF stats.triples = 1 /\ stats.pairs = 1 THEN Rank("FullHouse")
    ELSE IF stats.flush THEN Rank("Flush")
    ELSE IF stats.straight THEN Rank("Straight")
    ELSE IF stats.triples = 1 THEN Rank("ThreeCard")
    ELSE IF stats.pairs = 2 THEN Rank("TwoPair")
    ELSE IF stats.pairs = 1 THEN Rank("OnePair")
    ELSE HighCard(stats.highest)

\* Rank::evaluate
evaluate(hand) == evaluate_stats(HandStats(hand))

(***************************************************************************)
(* io.rs: prompt_discard.  A line is the words split_whitespace finds in   *)
(* it and whether it is the bare "\n" of the Enter key.                    *)
(***************************************************************************)
\* most words of a drawn line
MaxPicks == 2

\* str::parse::<usize> on the words that are drawn
parse_usize(w) ==
    CASE w = "0" -> Some(0)
      [] w = "1" -> Some(1)
      [] w = "2" -> Some(2)
      [] w = "3" -> Some(3)
      [] w = "4" -> Some(4)
      [] w = "5" -> Some(5)
      [] w = "6" -> Some(6)
      [] w = "12" -> Some(12)
      [] w = "13" -> Some(13)
      [] w = "+2" -> Some(2)
      [] OTHER -> None

Stood == [ok |-> TRUE, action |-> "Stand", v |-> <<>>, why |-> ""]
Discard(v) == [ok |-> TRUE, action |-> "Discard", v |-> v, why |-> ""]
OutOfBounds(v) == [ok |-> FALSE, action |-> "Discard", v |-> v, why |-> "index out of bounds"]

\* the chain filter_map(parse).filter((1..13).contains).map(i - 1)
picked(words) ==
    [k \in 1..Len(SelectSeq(words, LAMBDA w : parse_usize(w) # None /\ parse_usize(w)[1] \in 1..12))
        |-> parse_usize(SelectSeq(words, LAMBDA w :
                parse_usize(w) # None /\ parse_usize(w)[1] \in 1..12)[k])[1] - 1]

\* prompt_discard: the message indexes the hand with every picked position
prompt_discard(line) ==
    IF line.enter THEN Stood
    ELSE IF \E k \in DOMAIN picked(line.words) : picked(line.words)[k] >= 5
    THEN OutOfBounds(picked(line.words))
    ELSE Discard(picked(line.words))

Typed(words) == [enter |-> FALSE, words |-> words]
Enter == [enter |-> TRUE, words |-> <<>>]
Repeated(w, n) == [k \in 1..n |-> w]

PickWords == {"1", "5", "6", "x"}
Lines ==
    {Enter}
    \cup {Typed(ws) : ws \in UNION {[1..n -> PickWords] : n \in 0..MaxPicks}}
    \cup {Typed(<<"1", "2", "3", "4", "5">>), Typed(<<"0", "3">>), Typed(<<"12">>),
          Typed(<<"13", "+2">>), Typed(<<"4", "4", "4">>),
          Typed(Repeated("1", 47)), Typed(Repeated("1", 48))}

\* the hands whose rank is asked directly, as the tests do: five different
\* numbers in one suit and in mixed suits, in ascending and in another
\* order, and every five cards of the four suits of four numbers
RECURSIVE Rising(_, _, _)
Rising(n, lo, hi) ==
    IF n = 0 THEN {<<>>}
    ELSE UNION {{<<a>> \o r : r \in Rising(n - 1, a + 1, hi)} : a \in lo..hi}

SuitPatterns ==
    {[k \in 1..5 |-> s] : s \in {"Clover", "Diamond", "Heart", "Spade"}}
    \cup {<<"Heart", "Spade", "Clover", "Diamond", "Heart">>,
          <<"Spade", "Spade", "Spade", "Spade", "Heart">>}
Orders == {<<1, 2, 3, 4, 5>>, <<3, 1, 5, 2, 4>>}
RepeatNumbers == <<1, 2, 12, 13>>

GivenHands ==
    {[k \in 1..5 |-> Card(su[k], nums[o[k]])] :
        nums \in Rising(5, 1, 13), su \in SuitPatterns, o \in Orders}
    \cup {[k \in 1..5 |-> Card(Suits[((c[k] - 1) % 4) + 1], RepeatNumbers[((c[k] - 1) \div 4) + 1])] :
            c \in Rising(5, 1, 16)}

(***************************************************************************)
(* main.rs: the game loop `for _ in 0..2`, and the rank of the hand.       *)
(***************************************************************************)
NewGame(deal) ==
    [state |-> "prompt", deck |-> deal.deck, hand |-> deal.hand, round |-> 0,
     v |-> <<>>, rank |-> Rank("none"), why |-> ""]
GivenHand(hand) ==
    [state |-> "showdown", deck |-> <<>>, hand |-> hand, round |-> 0,
     v |-> <<>>, rank |-> Rank("none"), why |-> ""]

\* Deck::new and Hands::new_from_deck, or a hand made as the tests make it
InitPoker ==
    /\ \/ \E deck \in Shuffles : game = NewGame(new_from_deck(deck))
       \/ \E hand \in GivenHands : game = GivenHand(hand)
    /\ calc = [state |-> "off"]
    /\ tokens = <<>>
    /\ result = Unparsed
    /\ phase = "poker"
    /\ LexerIdle
    /\ EvaluatorIdle
    /\ GeneratorIdle

GameStep(g) ==
    /\ game' = g
    /\ UNCHANGED <<tokens, result, phase, input, pos, lexed, ret, overflow_checks, value,
                   output, cpu, calc>>

\* prompt_discard(&hands) with the line the player types, and the match on
\* the action
Prompt ==
    /\ game.state = "prompt"
    /\ \E line \in Lines :
        GameStep(IF ~prompt_discard(line).ok
                 THEN [game EXCEPT !.state = "panic", !.why = prompt_discard(line).why,
                                   !.v = prompt_discard(line).v]
                 ELSE IF prompt_discard(line).action = "Stand"
                 THEN [game EXCEPT !.state = "showdown"]
                 ELSE [game EXCEPT !.state = "exchange", !.v = prompt_discard(line).v])

\* Hands::exchange(deck, card): the position of the card, then Deck::draw
exchange(g, card) ==
    IF \A k \in 1..5 : g.hand[k] # card
    THEN [g EXCEPT !.state = "panic", !.why = "card not in hand"]
    ELSE IF g.deck = <<>>
    THEN [g EXCEPT !.state = "panic", !.why = "draw on an empty deck"]
    ELSE [g EXCEPT !.hand[CHOOSE k \in 1..5 : g.hand[k] = card /\ \A h \in 1..(k - 1) : g.hand[h] # card]
                        = g.deck[Len(g.deck)],
                   !.deck = SubSeq(@, 1, Len(@) - 1)]

\* one pass of `for i in v { hands.exchange(&mut deck, hands[i]); }`, and
\* the end of the round when v is used up
Exchange ==
    /\ game.state = "exchange"
    /\ IF game.v = <<>>
       THEN GameStep([game EXCEPT !.round = @ + 1,
                                  !.state = IF game.round + 1 = 2 THEN "showdown" ELSE "prompt"])
       ELSE IF Head(game.v) >= 5
       THEN GameStep([game EXCEPT !.state = "panic", !.why = "index out of bounds"])
       ELSE GameStep(exchange([game EXCEPT !.v = Tail(@)], game.hand[Head(game.v) + 1]))

\* hands.rank()
Showdown ==
    /\ game.state = "showdown"
    /\ GameStep([game EXCEPT !.state = "ranked", !.rank = evaluate(game.hand)])

NextPoker == Prompt \/ Exchange \/ Showdown

SpecPoker == InitPoker /\ [][NextPoker]_vars

(***************************************************************************)
(* Properties of the poker game.                                           *)
(***************************************************************************)
\* the categories of a hand, told from its cards alone
NumbersOf(hand) == {hand[k].number : k \in 1..5}
OfNumber(hand, n) == {k \in 1..5 : hand[k].number = n}
OneSuit(hand) == \A k \in 1..5 : hand[k].suit = hand[1].suit
Broadway == {10, 11, 12, 13, 1}
InSequence(hand) ==
    \/ \E a \in 1..9 : NumbersOf(hand) = a..(a + 4)
    \/ NumbersOf(hand) = Broadway
OfAKind(hand, m) == {n \in 1..13 : Cardinality(OfNumber(hand, n)) >= m}

Categories ==
    <<"RoyalStraightFlush", "StraightFlush", "FourCard", "FullHouse", "Flush", "Straight",
      "ThreeCard", "TwoPair", "OnePair">>

Satisfies(hand, category) ==
    CASE category = "RoyalStraightFlush" -> OneSuit(hand) /\ NumbersOf(hand) = Broadway
      [] category = "StraightFlush" -> OneSuit(hand) /\ InSequence(hand)
      [] category = "FourCard" -> OfAKind(hand, 4) # {}
      [] category = "FullHouse" -> OfAKind(hand, 3) # {} /\ Cardinality(NumbersOf(hand)) = 2
      [] category = "Flush" -> OneSuit(hand)
      [] category = "Straight" -> InSequence(hand)
      [] category = "ThreeCard" -> OfAKind(hand, 3) # {}
      [] category = "TwoPair" -> Cardinality(OfAKind(hand, 2)) >= 2
      [] category = "OnePair" -> OfAKind(hand, 2) # {}

\* the five cards are pairwise distinct
Distinct(hand) == \A k \in 1..5 : \A h \in 1..5 : hand[k] = hand[h] => k = h

Ranked == phase = "poker" /\ game.state = "ranked"

\* C26: the rank of a hand of five distinct cards is the first category it
\* satisfies in the order from RoyalStraightFlush to OnePair, and
\* HighCard(highest number) only when it satisfies none; five consecutive
\* numbers and 10-J-Q-K-A are straights, A-2-3-4-6 is not.
C26_Rank ==
    (Ranked /\ Distinct(game.hand)) =>
        /\ \A c \in DOMAIN Categories :
            (Satisfies(game.hand, Categories[c])
             /\ \A b \in 1..(c - 1) : ~Satisfies(game.hand, Categories[b]))
                => game.rank = Rank(Categories[c])
        /\ (\A c \in DOMAIN Categories : ~Satisfies(game.hand, Categories[c]))
                => /\ game.rank.name = "HighCard"
                   /\ game.rank.n \in NumbersOf(game.hand)
                   /\ \A n \in NumbersOf(game.hand) : n <= game.rank.n
        /\ NumbersOf(game.hand) = {1, 2, 3, 4, 6}
                => game.rank.name \notin {"Straight", "StraightFlush", "RoyalStraightFlush"}

\* 10-J-Q-K-A of mixed suits, not in ascending order, was ranked a straight
C26_Witness ==
    /\ Ranked /\ Distinct(game.hand)
    /\ NumbersOf(game.hand) = Broadway
    /\ ~OneSuit(game.hand)
    /\ game.hand[1].number = 11
    /\ game.rank = Rank("Straight")

\* C30: in the game loop every position prompt_discard returns or indexes
\* the hand with is one of 0..=4, exchange finds the card it is to replace,
\* draw is never called on an empty deck, and the hand always holds five
\* cards that are pairwise distinct and distinct from every card of the
\* deck.
C30_Discards ==
    (phase = "poker" /\ game.round <= 2) =>
        /\ \A k \in DOMAIN game.v : game.v[k] \in 0..4
        /\ game.why \notin {"index out of bounds", "card not in hand", "draw on an empty deck"}
        /\ Distinct(game.hand)
        /\ \A k \in 1..5 : \A d \in DOMAIN game.deck : game.hand[k] # game.deck[d]

====
